---- MODULE Spec2Model ----
(***************************************************************************)
(* Meter-reading billing: the per-merchant record (MerchantBill), the      *)
(* batch aggregate (BillTemplate), the table readers (read_csv_file,       *)
(* read_excel_file) and the callers that turn the record list into a       *)
(* document (server.rs process_file_to_docx, main.rs main).                *)
(*                                                                         *)
(* The repository holds two implementations of the record and the readers: *)
(* src/lib.rs (used by the HTTP server) and src/main.rs (the command-line  *)
(* binary).  The variable "variant" says which one a behaviour runs.       *)
(*                                                                         *)
(* Numbers.  The code computes in f64.  The model keeps every f64 value    *)
(* (reading, usage, price, amount) as an integer count of 1/Scale, so that *)
(* with Scale = 2 the integer 1 is 0.5 and 3 is 1.50.  Readings in the     *)
(* inputs are whole numbers, prices and fees may be halves; all values met *)
(* are dyadic and small, so the f64 arithmetic of the code is exact on     *)
(* them and so is the model's.                                             *)
(***************************************************************************)
EXTENDS Integers, Sequences, FiniteSets, TLC

VARIABLES
    variant,    \* "lib" (src/lib.rs) or "main" (src/main.rs)
    bill,       \* the MerchantBill being mutated by the Billing Engine
    template,   \* the BillTemplate aggregate (lib.rs only)
    appended,   \* history: the records passed to add_merchant, in call order
    format,     \* the input file's extension: "csv", "xlsx" or another
    headerRow,  \* the header row of the input table, as stored in the file
    pc,         \* where the run stands: "idle", "start", "rows", "read_done", "done"
    colMap,     \* the resolved column map
    rowsRead,   \* history: the data rows read so far, skipped ones included
    bills,      \* the record list (Vec<MerchantBill>) the reader builds
    perPage,    \* the per_page option handed to the assembler
    outcome,    \* what the caller receives: an error, or the document
    arg,        \* the argument of a pure function under test
    result      \* what the function returned for arg, once it has been called

batchVars == <<format, headerRow, pc, colMap, rowsRead, bills, perPage, outcome>>
engineVars == <<bill, template, appended>>
pureVars == <<arg, result>>
vars == <<variant, bill, template, appended, batchVars, pureVars>>

(***************************************************************************)
(* Bounds and input sets                                                   *)
(***************************************************************************)
MaxReading == 1
MaxMeters == 2
MaxMerchants == 3

Scale == 2

Variants == {"lib", "main"}
\* meter readings 0, 1, ..: whole numbers, in 1/Scale units
Readings == {r * Scale : r \in 0..MaxReading}
\* unit prices, in 1/Scale units: -0.5, 0.5, 1.0
Prices == {-1, 1, 2}
\* (labor fee, garbage fee) pairs, in 1/Scale units: (0, 0) and (1.50, 0.50)
FeePairs == {<<0, 0>>, <<3, 1>>}
Names == {<<"A">>}

(***************************************************************************)
(* Arithmetic                                                              *)
(***************************************************************************)
Max(a, b) == IF a >= b THEN a ELSE b

\* f64::round on an amount x given in 1/Scale units: the nearest whole unit,
\* a half going away from zero; the result is again in 1/Scale units.
round(x) ==
    IF x >= 0 THEN ((2 * x + Scale) \div (2 * Scale)) * Scale
    ELSE -(((2 * (-x) + Scale) \div (2 * Scale)) * Scale)

\* the f64 product a * b of two values in 1/Scale units (exact: one factor
\* is always a whole number)
mul(a, b) == (a * b) \div Scale

Front(s) == SubSeq(s, 1, Len(s) - 1)

RECURSIVE SumUsage(_)
\* self.electricity_meters.iter().map(|m| m.usage).sum()
SumUsage(ms) == IF ms = <<>> THEN 0 ELSE SumUsage(Front(ms)) + ms[Len(ms)].usage

RECURSIVE SumAmount(_)
\* self.electricity_meters.iter().map(|m| m.amount).sum()
SumAmount(ms) == IF ms = <<>> THEN 0 ELSE SumAmount(Front(ms)) + ms[Len(ms)].amount

(***************************************************************************)
(* MerchantBill                                                            *)
(***************************************************************************)
MerchantBill_new(merchant_name, water_unit_price, electricity_unit_price) ==
    [ merchant_name |-> merchant_name,
      shop_code |-> <<>>,
      water_unit_price |-> water_unit_price,
      electricity_unit_price |-> electricity_unit_price,
      prev_water_reading |-> 0,
      curr_water_reading |-> 0,
      water_usage |-> 0,
      water_amount |-> 0,
      electricity_meters |-> <<>>,
      electricity_usage |-> 0,
      electricity_amount |-> 0,
      water_electricity_labor_fee |-> 0,
      garbage_disposal_fee |-> 0,
      total_fee |-> 0 ]

set_shop_code(b, code) == [b EXCEPT !.shop_code = code]

\* lib.rs update_totals: usages summed, the price applied once, rounded once
lib_update_totals(b) ==
    LET usage == SumUsage(b.electricity_meters)
        amount == round(mul(usage, b.electricity_unit_price))
    IN [b EXCEPT !.electricity_usage = usage,
                 !.electricity_amount = amount,
                 !.total_fee = b.water_amount + amount
                               + b.water_electricity_labor_fee + b.garbage_disposal_fee]

\* main.rs update_totals: the per-meter amounts summed
main_update_totals(b) ==
    LET usage == SumUsage(b.electricity_meters)
        amount == SumAmount(b.electricity_meters)
    IN [b EXCEPT !.electricity_usage = usage,
                 !.electricity_amount = amount,
                 !.total_fee = amount + b.water_amount
                               + b.water_electricity_labor_fee + b.garbage_disposal_fee]

\* mutant: the total fee is added to, not recomputed
update_totals_accumulating(v, b) ==
    LET t == IF v = "lib" THEN lib_update_totals(b) ELSE main_update_totals(b)
    IN [t EXCEPT !.total_fee = b.total_fee + t.total_fee]

update_totals(v, b) == IF v = "lib" THEN lib_update_totals(b) ELSE main_update_totals(b)

\* mutant: the difference is not clamped
usage_of_unclamped(prev, curr) == curr - prev

\* (curr - prev).max(0.0)
usage_of(prev, curr) == Max(curr - prev, 0)

lib_set_water_readings(b, prev, curr) ==
    LET usage == usage_of(prev, curr)
    IN lib_update_totals([b EXCEPT !.prev_water_reading = prev,
                                   !.curr_water_reading = curr,
                                   !.water_usage = usage,
                                   !.water_amount = round(mul(usage, b.water_unit_price))])

main_set_water_readings(b, prev, curr) ==
    LET usage == usage_of(prev, curr)
    IN main_update_totals([b EXCEPT !.prev_water_reading = prev,
                                    !.curr_water_reading = curr,
                                    !.water_usage = usage,
                                    !.water_amount = mul(usage, b.water_unit_price)])

set_water_readings(v, b, prev, curr) ==
    IF v = "lib" THEN lib_set_water_readings(b, prev, curr)
    ELSE main_set_water_readings(b, prev, curr)

DigitChars == <<"0", "1", "2", "3", "4", "5", "6", "7", "8", "9">>

\* format!("{}", n) of an unsigned integer
RECURSIVE Dec(_)
Dec(n) == IF n < 10 THEN <<DigitChars[n + 1]>>
          ELSE Dec(n \div 10) \o <<DigitChars[(n % 10) + 1]>>

ElectricityMeter(meter_id, prev, curr, usage, amount) ==
    [ meter_id |-> meter_id, prev_reading |-> prev, curr_reading |-> curr,
      usage |-> usage, amount |-> amount ]

lib_add_electricity_meter(b, meter_id, prev, curr) ==
    LET usage == usage_of(prev, curr)
        amount == round(mul(usage, b.electricity_unit_price))
    IN lib_update_totals([b EXCEPT !.electricity_meters =
            Append(@, ElectricityMeter(meter_id, prev, curr, usage, amount))])

main_add_electricity_meter(b, meter_id, prev, curr) ==
    LET usage == usage_of(prev, curr)
        amount == mul(usage, b.electricity_unit_price)
    IN main_update_totals([b EXCEPT !.electricity_meters =
            Append(@, ElectricityMeter(meter_id, prev, curr, usage, amount))])

add_electricity_meter(v, b, meter_id, prev, curr) ==
    IF v = "lib" THEN lib_add_electricity_meter(b, meter_id, prev, curr)
    ELSE main_add_electricity_meter(b, meter_id, prev, curr)

\* mutant: the fees are stored and the totals are not recomputed
set_fees_stale(v, b, labor, garbage) ==
    [b EXCEPT !.water_electricity_labor_fee = labor, !.garbage_disposal_fee = garbage]

\* lib.rs: the readers assign the two fee fields and call update_totals;
\* main.rs: set_additional_fees
set_fees(v, b, labor, garbage) ==
    update_totals(v, [b EXCEPT !.water_electricity_labor_fee = labor,
                               !.garbage_disposal_fee = garbage])

\* mutant: every resolved meter pair is recorded, also one reading 0 and 0
RECURSIVE add_meters_all(_, _, _, _)
add_meters_all(v, b, readings, k) ==
    IF k > Len(readings) THEN b
    ELSE add_meters_all(v, add_electricity_meter(v, b, Dec(k), readings[k][1], readings[k][2]),
                        readings, k + 1)

\* mutant: the meters kept are numbered 1, 2, ... as they are added
RECURSIVE add_meters_renumbered(_, _, _, _)
add_meters_renumbered(v, b, readings, k) ==
    IF k > Len(readings) THEN b
    ELSE add_meters_renumbered(v,
            IF readings[k][1] > 0 \/ readings[k][2] > 0
            THEN add_electricity_meter(v, b, Dec(Len(b.electricity_meters) + 1),
                                       readings[k][1], readings[k][2])
            ELSE b,
            readings, k + 1)

\* the readers' row body once the cells are read: the record built from the
\* name, the prices, the water readings, the meter readings (one <<prev, curr>>
\* per resolved column pair, in list order) and the fees.
RECURSIVE add_meters(_, _, _, _)
add_meters(v, b, readings, k) ==
    IF k > Len(readings) THEN b
    ELSE LET prev_reading == readings[k][1]
             curr_reading == readings[k][2]
         IN add_meters(v,
                IF prev_reading > 0 \/ curr_reading > 0
                THEN add_electricity_meter(v, b, Dec(k), prev_reading, curr_reading)
                ELSE b,
                readings, k + 1)

build_bill(v, name, code, water_price, electricity_price, prev_water, curr_water, readings, labor_fee, garbage_fee) ==
    LET b0 == MerchantBill_new(name, water_price, electricity_price)
        b1 == set_water_readings(v, b0, prev_water, curr_water)
        b2 == IF v = "lib" THEN set_shop_code(b1, code) ELSE b1
        b3 == add_meters(v, b2, readings, 1)
    IN set_fees(v, b3, labor_fee, garbage_fee)

(***************************************************************************)
(* BillTemplate                                                            *)
(***************************************************************************)
BillTemplate_new ==
    [ merchants |-> <<>>,
      total_water_usage |-> 0,
      total_electric_usage |-> 0,
      total_water_amount |-> 0,
      total_electric_amount |-> 0,
      grand_total |-> 0 ]

\* mutant: the grand total leaves the flat fees out
add_merchant_no_fees(t, merchant) ==
    [ merchants |-> Append(t.merchants, merchant),
      total_water_usage |-> t.total_water_usage + merchant.water_usage,
      total_electric_usage |-> t.total_electric_usage + merchant.electricity_usage,
      total_water_amount |-> t.total_water_amount + merchant.water_amount,
      total_electric_amount |-> t.total_electric_amount + merchant.electricity_amount,
      grand_total |-> t.grand_total + merchant.water_amount + merchant.electricity_amount ]

add_merchant(t, merchant) ==
    [ merchants |-> Append(t.merchants, merchant),
      total_water_usage |-> t.total_water_usage + merchant.water_usage,
      total_electric_usage |-> t.total_electric_usage + merchant.electricity_usage,
      total_water_amount |-> t.total_water_amount + merchant.water_amount,
      total_electric_amount |-> t.total_electric_amount + merchant.electricity_amount,
      grand_total |-> t.grand_total + merchant.total_fee ]

(***************************************************************************)
(* Text.  A string is the sequence of its characters, each a one-character *)
(* token; a Chinese character is written as its pinyin syllable            *)
(* ("dian_e" is the character of "electricity", "dian_s" that of "shop").  *)
(***************************************************************************)
IsSpace(c) == c = " "

RECURSIVE TrimStart(_)
TrimStart(s) == IF s # <<>> /\ IsSpace(s[1]) THEN TrimStart(Tail(s)) ELSE s

RECURSIVE TrimEnd(_)
TrimEnd(s) == IF s # <<>> /\ IsSpace(s[Len(s)]) THEN TrimEnd(Front(s)) ELSE s

\* str::trim
Trim(s) == TrimEnd(TrimStart(s))

lower_char(c) ==
    CASE c = "A" -> "a"
      [] c = "S" -> "s"
      [] c = "X" -> "x"
      [] OTHER -> c

\* str::to_lowercase
to_lowercase(s) == [i \in 1..Len(s) |-> lower_char(s[i])]

normalize(s) == to_lowercase(Trim(s))

\* str::contains
Contains(h, pat) ==
    \E i \in 1..(Len(h) - Len(pat) + 1) : SubSeq(h, i, i + Len(pat) - 1) = pat


IsDigit(c) == \E i \in 1..Len(DigitChars) : DigitChars[i] = c

DigitVal(c) == (CHOOSE i \in 1..Len(DigitChars) : DigitChars[i] = c) - 1

AllDigits(s) == \A i \in 1..Len(s) : IsDigit(s[i])

RECURSIVE NatVal(_)
NatVal(s) == IF s = <<>> THEN 0 ELSE NatVal(Front(s)) * 10 + DigitVal(s[Len(s)])

RECURSIVE Pow10(_)
Pow10(n) == IF n = 0 THEN 1 ELSE 10 * Pow10(n - 1)

\* str::parse::<f64> on the decimal texts [+-]digits[.digits]; the value in
\* 1/Scale units.  (Exponents, "inf" and "nan" are not in the inputs, nor are
\* fractions finer than 1/Scale.)
parse_f64(s) ==
    LET signed == s # <<>> /\ s[1] \in {"-", "+"}
        body == IF signed THEN Tail(s) ELSE s
        dots == {i \in 1..Len(body) : body[i] = "."}
        dot == IF dots = {} THEN Len(body) + 1 ELSE CHOOSE i \in dots : \A j \in dots : i <= j
        ip == SubSeq(body, 1, dot - 1)
        fp == SubSeq(body, dot + 1, Len(body))
        ok == /\ AllDigits(ip)
              /\ AllDigits(fp)
              /\ ip # <<>> \/ fp # <<>>
        mag == NatVal(ip) * Scale + (NatVal(fp) * Scale) \div Pow10(Len(fp))
    IN IF ~ok THEN [ok |-> FALSE, v |-> 0]
       ELSE [ok |-> TRUE, v |-> IF signed /\ s[1] = "-" THEN -mag ELSE mag]

\* s.trim().parse::<f64>().unwrap_or(0.0)
parse_or_zero(s) ==
    LET r == parse_f64(Trim(s)) IN IF r.ok THEN r.v ELSE 0

\* Display of an f64 (a value in 1/Scale units): "1", "0.5", "-1.5"
fmt_f64(f) ==
    LET mag == IF f < 0 THEN -f ELSE f
    IN (IF f < 0 THEN <<"-">> ELSE <<>>)
       \o Dec(mag \div Scale)
       \o (IF mag % Scale = 0 THEN <<>> ELSE <<".">> \o Dec(((mag % Scale) * 10) \div Scale))

(***************************************************************************)
(* Spreadsheet cells (calamine DataType); a CSV field is a String cell.    *)
(***************************************************************************)
DT_String(s) == [t |-> "String", s |-> s, f |-> 0]
DT_Float(f) == [t |-> "Float", s |-> <<>>, f |-> f]
DT_Empty == [t |-> "Empty", s |-> <<>>, f |-> 0]

as_f64(cell) ==
    CASE cell.t = "Float" -> cell.f
      [] cell.t = "String" -> parse_or_zero(cell.s)
      [] OTHER -> 0

\* DataType's Display
cell_to_string(cell) ==
    CASE cell.t = "Float" -> fmt_f64(cell.f)
      [] cell.t = "String" -> cell.s
      [] OTHER -> <<>>

(***************************************************************************)
(* Header labels                                                           *)
(***************************************************************************)
LblCode == <<"pu", "mian", "bian", "hao">>
LblMerchant == <<"dian_s", "pu", "ming", "cheng">>
LblWaterPrev == <<"shang", "qi", "shui", "biao", "du", "shu">>
LblWaterCurr == <<"ben", "qi", "shui", "biao", "du", "shu">>
LblWaterPrice == <<"shui", "fei", "dan", "jia">>
LblElecPrice == <<"dian_e", "fei", "dan", "jia">>
LblLabor == <<"shui", "dian_e", "ren", "gong", "fei">>
LblGarbage == <<"la", "ji", "chu", "li", "fei">>
\* headers_map.electricity_prefix
ElectricityPrefix == <<"dian_e", "biao">>
SuffixPrev == <<"shang", "qi", "du", "shu">>
SuffixCurr == <<"ben", "qi", "du", "shu">>

\* format!("{}{}上期读数", prefix, meter_id) and its "本期读数" twin
prev_pattern(prefix, meter_id) == prefix \o Dec(meter_id) \o SuffixPrev
curr_pattern(prefix, meter_id) == prefix \o Dec(meter_id) \o SuffixCurr

LblE1Prev == prev_pattern(ElectricityPrefix, 1)
LblE1Curr == curr_pattern(ElectricityPrefix, 1)

(***************************************************************************)
(* Header resolution.  Column indices count from 1; 0 stands for None.     *)
(***************************************************************************)
\* mutant: a header matches only when it is the label itself
position_exact(headers, pat) ==
    LET S == {i \in 1..Len(headers) : headers[i] = pat}
    IN IF S = {} THEN 0 ELSE CHOOSE i \in S : \A j \in S : i <= j

\* headers.iter().position(|h| h.contains(pat))
position(headers, pat) ==
    LET S == {i \in 1..Len(headers) : Contains(headers[i], pat)}
    IN IF S = {} THEN 0 ELSE CHOOSE i \in S : \A j \in S : i <= j

NoError == [kind |-> "none", field |-> <<>>]
ColumnNotFound(label) == [kind |-> "column_not_found", field |-> label]
NoMeterColumns == [kind |-> "no_meter_columns", field |-> ElectricityPrefix]
NoValidData == [kind |-> "no_valid_data", field |-> <<>>]
MissingHeaderRow == [kind |-> "missing_header_row", field |-> <<>>]
UnreadableLineError == [kind |-> "unreadable_line", field |-> <<>>]
UnsupportedFormatError == [kind |-> "unsupported_format", field |-> <<>>]

\* mutant: the search goes on past a meter number left without its columns
RECURSIVE find_columns_loop_past_gaps(_, _, _, _)
find_columns_loop_past_gaps(headers_norm, prefix, meter_id, columns) ==
    LET prev_idx == position(headers_norm, normalize(prev_pattern(prefix, meter_id)))
        curr_idx == position(headers_norm, normalize(curr_pattern(prefix, meter_id)))
    IN IF meter_id > Len(headers_norm) THEN columns
       ELSE IF prev_idx # 0 /\ curr_idx # 0
       THEN find_columns_loop_past_gaps(headers_norm, prefix, meter_id + 1,
                                        Append(columns, <<prev_idx, curr_idx>>))
       ELSE find_columns_loop_past_gaps(headers_norm, prefix, meter_id + 1, columns)

RECURSIVE find_columns_loop(_, _, _, _)
find_columns_loop(headers_norm, prefix, meter_id, columns) ==
    LET prev_idx == position(headers_norm, normalize(prev_pattern(prefix, meter_id)))
        curr_idx == position(headers_norm, normalize(curr_pattern(prefix, meter_id)))
    IN IF prev_idx # 0 /\ curr_idx # 0
       THEN find_columns_loop(headers_norm, prefix, meter_id + 1,
                              Append(columns, <<prev_idx, curr_idx>>))
       ELSE columns

find_electricity_columns(headers, prefix) ==
    LET headers_norm == [i \in 1..Len(headers) |-> normalize(headers[i])]
        columns == find_columns_loop(headers_norm, prefix, 1, <<>>)
    IN IF columns = <<>>
       THEN [ok |-> FALSE, err |-> NoMeterColumns, columns |-> <<>>]
       ELSE [ok |-> TRUE, err |-> NoError, columns |-> columns]

NoCols ==
    [ code_i |-> 0, m_i |-> 0, wp_i |-> 0, wc_i |-> 0, wprice_i |-> 0, eprice_i |-> 0,
      labor_fee_i |-> 0, garbage_fee_i |-> 0, electricity_columns |-> <<>> ]

\* the labels looked up with "?", in the order of the code
RequiredLib ==
    <<LblCode, LblMerchant, LblE1Prev, LblE1Curr, LblWaterPrev, LblWaterCurr,
      LblWaterPrice, LblElecPrice, LblLabor, LblGarbage>>

RequiredMain ==
    <<LblMerchant, LblWaterPrev, LblWaterCurr, LblWaterPrice, LblElecPrice>>

\* mutant: a missing garbage-fee column is not an error
first_missing_lenient(headers, req) ==
    LET S == {k \in 1..Len(req) : position(headers, req[k]) = 0 /\ req[k] # LblGarbage}
    IN IF S = {} THEN <<>> ELSE req[CHOOSE k \in S : \A j \in S : k <= j]

\* the first label of req that no header contains, or <<>>
first_missing(headers, req) ==
    LET S == {k \in 1..Len(req) : position(headers, req[k]) = 0}
    IN IF S = {} THEN <<>> ELSE req[CHOOSE k \in S : \A j \in S : k <= j]

\* lib.rs read_excel_file / read_csv_file, from the header row to the column map
\* mutant: the meter-1 pair is put in front whatever discovery returned
with_meter_one_always(columns, e1) == <<e1>> \o columns

\* if !electricity_columns.iter().any(..) { electricity_columns.insert(0, ..) }
with_meter_one(columns, e1) ==
    IF \E k \in 1..Len(columns) : columns[k] = e1 THEN columns ELSE <<e1>> \o columns

\* lib.rs read_excel_file / read_csv_file, from the header row to the column
\* map, for the prefix of the caller's HeadersMap
lib_resolve_with(headers, prefix) ==
    LET missing == first_missing(headers, RequiredLib)
        found == find_electricity_columns(headers, prefix)
        e1 == <<position(headers, LblE1Prev), position(headers, LblE1Curr)>>
    IN IF missing # <<>>
       THEN [ok |-> FALSE, err |-> ColumnNotFound(missing), cols |-> NoCols]
       ELSE IF ~found.ok
       THEN [ok |-> FALSE, err |-> found.err, cols |-> NoCols]
       ELSE [ok |-> TRUE, err |-> NoError,
             cols |-> [ code_i |-> position(headers, LblCode),
                        m_i |-> position(headers, LblMerchant),
                        wp_i |-> position(headers, LblWaterPrev),
                        wc_i |-> position(headers, LblWaterCurr),
                        wprice_i |-> position(headers, LblWaterPrice),
                        eprice_i |-> position(headers, LblElecPrice),
                        labor_fee_i |-> position(headers, LblLabor),
                        garbage_fee_i |-> position(headers, LblGarbage),
                        electricity_columns |-> with_meter_one(found.columns, e1) ]]

\* the server's call: the prefix is "电表" (server.rs 170)
lib_resolve(headers) == lib_resolve_with(headers, ElectricityPrefix)

\* main.rs read_excel_file / read_csv_file, from the header row to the column map
main_resolve(headers) ==
    LET missing == first_missing(headers, RequiredMain)
        found == find_electricity_columns(headers, ElectricityPrefix)
    IN IF missing # <<>>
       THEN [ok |-> FALSE, err |-> ColumnNotFound(missing), cols |-> NoCols]
       ELSE IF ~found.ok
       THEN [ok |-> FALSE, err |-> found.err, cols |-> NoCols]
       ELSE [ok |-> TRUE, err |-> NoError,
             cols |-> [ NoCols EXCEPT
                        !.m_i = position(headers, LblMerchant),
                        !.wp_i = position(headers, LblWaterPrev),
                        !.wc_i = position(headers, LblWaterCurr),
                        !.wprice_i = position(headers, LblWaterPrice),
                        !.eprice_i = position(headers, LblElecPrice),
                        !.electricity_columns = found.columns ]]

resolve(v, headers) == IF v = "lib" THEN lib_resolve(headers) ELSE main_resolve(headers)

(***************************************************************************)
(* Rows.  A row is a sequence of cells; a CSV line is the sequence of its  *)
(* comma-separated fields, each a String cell.                             *)
(***************************************************************************)
MinCsvFields == 5
MainLaborFee == 50
MainGarbageFee == 30

NoBill == MerchantBill_new(<<>>, 0, 0)
Skip == [skip |-> TRUE, bill |-> NoBill]
Keep(b) == [skip |-> FALSE, bill |-> b]

\* parts.get(i).copied().unwrap_or("")
get(parts, i) == IF i >= 1 /\ i <= Len(parts) THEN parts[i].s ELSE <<>>

\* row.get(i).map(as_f64).unwrap_or(0.0)
row_f64(row, i) == IF i >= 1 /\ i <= Len(row) THEN as_f64(row[i]) ELSE 0

\* row.get(i).map(|c| c.to_string()).unwrap_or_default()
row_string(row, i) == IF i >= 1 /\ i <= Len(row) THEN cell_to_string(row[i]) ELSE <<>>

\* line.trim().is_empty(): a line of white space only (it has no comma)
blank_line(parts) == Len(parts) = 1 /\ Trim(parts[1].s) = <<>>

csv_readings(cols, parts) ==
    [k \in 1..Len(cols.electricity_columns) |->
        <<parse_or_zero(get(parts, cols.electricity_columns[k][1])),
          parse_or_zero(get(parts, cols.electricity_columns[k][2]))>>]

excel_readings(cols, row) ==
    [k \in 1..Len(cols.electricity_columns) |->
        <<row_f64(row, cols.electricity_columns[k][1]),
          row_f64(row, cols.electricity_columns[k][2])>>]

\* the body of the row loop of read_csv_file past the field-count check
csv_record(v, cols, parts) ==
         LET merchant_name == Trim(get(parts, cols.m_i))
             shop_code == Trim(get(parts, cols.code_i))
         IN IF merchant_name = <<>> THEN Skip
            ELSE Keep(build_bill(v, merchant_name, shop_code,
                        parse_or_zero(get(parts, cols.wprice_i)),
                        parse_or_zero(get(parts, cols.eprice_i)),
                        parse_or_zero(get(parts, cols.wp_i)),
                        parse_or_zero(get(parts, cols.wc_i)),
                        csv_readings(cols, parts),
                        IF v = "lib" THEN parse_or_zero(get(parts, cols.labor_fee_i))
                        ELSE MainLaborFee * Scale,
                        IF v = "lib" THEN parse_or_zero(get(parts, cols.garbage_fee_i))
                        ELSE MainGarbageFee * Scale))

\* mutant: a line that ends before the current water reading is dropped
csv_row_strict(v, cols, parts) ==
    IF blank_line(parts) THEN Skip
    ELSE IF Len(parts) < MinCsvFields \/ Len(parts) < cols.wc_i THEN Skip
    ELSE csv_record(v, cols, parts)

\* one iteration of the row loop of read_csv_file (lib.rs and main.rs)
csv_row(v, cols, parts) ==
    IF blank_line(parts) THEN Skip
    ELSE IF Len(parts) < MinCsvFields THEN Skip
    ELSE csv_record(v, cols, parts)

\* one iteration of the row loop of read_excel_file (lib.rs and main.rs)
excel_row(v, cols, row) ==
    IF row = <<>> THEN Skip
    ELSE LET merchant_name == row_string(row, cols.m_i)
             shop_code == row_string(row, cols.code_i)
         IN IF Trim(merchant_name) = <<>> THEN Skip
            ELSE Keep(build_bill(v, merchant_name, shop_code,
                        row_f64(row, cols.wprice_i),
                        row_f64(row, cols.eprice_i),
                        row_f64(row, cols.wp_i),
                        row_f64(row, cols.wc_i),
                        excel_readings(cols, row),
                        IF v = "lib" THEN row_f64(row, cols.labor_fee_i)
                        ELSE MainLaborFee * Scale,
                        IF v = "lib" THEN row_f64(row, cols.garbage_fee_i)
                        ELSE MainGarbageFee * Scale))

read_row(v, fmt, cols, row) ==
    IF fmt = "csv" THEN csv_row(v, cols, row) ELSE excel_row(v, cols, row)

\* the row loop as a whole: the records of the rows, in row order
RECURSIVE read_rows(_, _, _, _)
read_rows(v, fmt, cols, rows) ==
    IF rows = <<>> THEN <<>>
    ELSE LET r == read_row(v, fmt, cols, Head(rows))
         IN (IF r.skip THEN <<>> ELSE <<r.bill>>) \o read_rows(v, fmt, cols, Tail(rows))

(***************************************************************************)
(* The currency formatter.  An amount is handled in cents, as the code     *)
(* does after its first line.                                              *)
(***************************************************************************)
\* str::replace: every non-overlapping occurrence, from the left
RECURSIVE replace_from(_, _, _, _)
replace_from(s, i, from, to) ==
    LET found == {j \in i..(Len(s) - Len(from) + 1) : SubSeq(s, j, j + Len(from) - 1) = from}
    IN IF found = {} THEN SubSeq(s, i, Len(s))
       ELSE LET j == CHOOSE j \in found : \A k \in found : j <= k
            IN SubSeq(s, i, j - 1) \o to \o replace_from(s, j + Len(from), from, to)

Replace(s, from, to) == replace_from(s, 1, from, to)

RECURSIVE Reverse(_)
Reverse(s) == IF s = <<>> THEN <<>> ELSE Append(Reverse(Tail(s)), Head(s))

\* Vec<String>::join("")
RECURSIVE Join(_)
Join(ps) == IF ps = <<>> THEN <<>> ELSE Head(ps) \o Join(Tail(ps))

RmbDigits == <<"ling", "yi_1", "er", "san", "si", "wu", "liu", "qi_7", "ba", "jiu">>
RmbUnits ==
    <<"fen", "jiao", "yuan", "shi", "bai", "qian", "wan", "shi", "bai", "qian",
      "yi_y", "shi", "bai", "qian", "wan">>
Zero == "ling"
Zheng == "zheng"
ZeroYuanZheng == <<Zero, "yuan", Zheng>>

\* an i64 as the sequence of its decimal digits, the first one not 0; the
\* empty sequence for a number that is not above 0
RECURSIVE CentDigits(_)
CentDigits(n) == IF n <= 0 THEN <<>> ELSE Append(CentDigits(n \div 10), n % 10)

\* the while loop of rmb_upper; unit_idx counts from 1 here, and num is the
\* sequence of its decimal digits: num > 0 reads num # <<>>, num % 10 is the
\* last digit and num / 10 the digits before it
RECURSIVE rmb_loop(_, _, _, _)
rmb_loop(num, unit_idx, last_zero, parts) ==
    IF ~(num # <<>> /\ unit_idx <= Len(RmbUnits)) THEN parts
    ELSE LET d == num[Len(num)]
             unit == RmbUnits[unit_idx]
         IN IF d = 0
            THEN LET p1 == IF unit \in {"yuan", "wan", "yi_y"}
                              /\ ~\E k \in 1..Len(parts) : Contains(parts[k], <<unit>>)
                           THEN Append(parts, <<unit>>) ELSE parts
                     p2 == IF ~last_zero THEN Append(p1, <<Zero>>) ELSE p1
                 IN rmb_loop(Front(num), unit_idx + 1, TRUE, p2)
            ELSE rmb_loop(Front(num), unit_idx + 1, FALSE,
                          Append(parts, <<RmbDigits[d + 1], unit>>))

\* while s.contains("零零") { s = s.replace("零零", "零"); }
RECURSIVE squeeze_zeros(_)
squeeze_zeros(s) ==
    IF Contains(s, <<Zero, Zero>>) THEN squeeze_zeros(Replace(s, <<Zero, Zero>>, <<Zero>>))
    ELSE s

\* mutant: "整" is appended whatever the string holds
rmb_upper_always_zheng(cents) ==
    IF cents = 0 THEN ZeroYuanZheng
    ELSE LET s0 == Join(Reverse(rmb_loop(CentDigits(cents), 1, FALSE, <<>>)))
             s1 == squeeze_zeros(s0)
             s2 == Replace(Replace(Replace(s1, <<Zero, "yi_y">>, <<"yi_y">>),
                                   <<Zero, "wan">>, <<"wan">>), <<Zero, "yuan">>, <<"yuan">>)
             s3 == IF s2 # <<>> /\ s2[Len(s2)] = Zero THEN Front(s2) ELSE s2
         IN Append(s3, Zheng)

\* mutant: a zero digit is written out with its unit
rmb_upper_keeps_zero(cents) ==
    IF cents = 0 THEN ZeroYuanZheng
    ELSE LET s0 == Join(Reverse(rmb_loop(CentDigits(cents), 1, FALSE, <<>>)))
             s1 == squeeze_zeros(s0)
             s3 == IF s1 # <<>> /\ s1[Len(s1)] = Zero THEN Front(s1) ELSE s1
         IN IF ~Contains(s3, <<"jiao">>) /\ ~Contains(s3, <<"fen">>)
            THEN Append(s3, Zheng) ELSE s3

\* mutant: a "零" at the end of the string is left there
rmb_text_keeps_last_zero(num) ==
    LET s0 == Join(Reverse(rmb_loop(num, 1, FALSE, <<>>)))
        s1 == squeeze_zeros(s0)
        s2 == Replace(Replace(Replace(s1, <<Zero, "yi_y">>, <<"yi_y">>),
                              <<Zero, "wan">>, <<"wan">>), <<Zero, "yuan">>, <<"yuan">>)
    IN IF ~Contains(s2, <<"jiao">>) /\ ~Contains(s2, <<"fen">>)
       THEN Append(s2, Zheng) ELSE s2

\* rmb_upper past the test for 0, on the decimal digits of cents
rmb_text(num) ==
    LET s0 == Join(Reverse(rmb_loop(num, 1, FALSE, <<>>)))
        s1 == squeeze_zeros(s0)
        s2 == Replace(Replace(Replace(s1, <<Zero, "yi_y">>, <<"yi_y">>),
                              <<Zero, "wan">>, <<"wan">>), <<Zero, "yuan">>, <<"yuan">>)
        s3 == IF s2 # <<>> /\ s2[Len(s2)] = Zero THEN Front(s2) ELSE s2
    IN IF ~Contains(s3, <<"jiao">>) /\ ~Contains(s3, <<"fen">>)
       THEN Append(s3, Zheng) ELSE s3

\* rmb_upper, from cents = (amount * 100.0).round() on
rmb_upper(cents) ==
    IF cents = 0 THEN ZeroYuanZheng ELSE rmb_text(CentDigits(cents))

(***************************************************************************)
(* Placeholder substitution of the declarative template layout.  A text is *)
(* a sequence of characters; the name between the braces of a token is     *)
(* one element of the sequence.                                            *)
(***************************************************************************)
Token(name) == <<"{", name, "}">>

\* format!("{:.2}", f)
fmt_2(f) ==
    LET mag == IF f < 0 THEN -f ELSE f
        frac == ((mag % Scale) * 100) \div Scale
    IN (IF f < 0 THEN <<"-">> ELSE <<>>)
       \o Dec(mag \div Scale) \o <<".">> \o Dec(frac \div 10) \o Dec(frac % 10)

\* main.rs get_electricity_details, one line
meter_detail(m) ==
    <<"dian_e", "biao">> \o m.meter_id \o <<":", " ", "shang", "qi">> \o fmt_f64(m.prev_reading)
    \o <<"du_d", ",", " ", "ben", "qi">> \o fmt_f64(m.curr_reading)
    \o <<"du_d", ",", " ", "yong", "liang">> \o fmt_f64(m.usage)
    \o <<"du_d", ",", " ", "fei", "yong">> \o fmt_2(m.amount) \o <<"yuan">>

\* get_electricity_details().join("\n")
RECURSIVE electricity_details(_)
electricity_details(ms) ==
    IF ms = <<>> THEN <<>>
    ELSE meter_detail(Head(ms))
         \o (IF Len(ms) > 1 THEN <<"\n">> ELSE <<>>)
         \o electricity_details(Tail(ms))

\* a chain of str::replace calls, in list order
replace_all(text, pairs) ==
    LET R[k \in 0..Len(pairs)] ==
            IF k = 0 THEN text ELSE Replace(R[k - 1], Token(pairs[k][1]), pairs[k][2])
    IN R[Len(pairs)]

\* template_simple.rs: the tokens and their values, in the order of the code
simple_pairs(b, now) ==
    << <<"merchant_name", b.merchant_name>>,
       <<"year", Dec(now.year)>>,
       <<"month", Dec(now.month)>>,
       <<"prev_water_reading", fmt_f64(b.prev_water_reading)>>,
       <<"curr_water_reading", fmt_f64(b.curr_water_reading)>>,
       <<"water_usage", fmt_f64(b.water_usage)>>,
       <<"electricity_usage", fmt_f64(b.electricity_usage)>>,
       <<"water_unit_price", fmt_2(b.water_unit_price)>>,
       <<"electricity_unit_price", fmt_2(b.electricity_unit_price)>>,
       <<"water_amount", fmt_2(b.water_amount)>>,
       <<"electricity_amount", fmt_2(b.electricity_amount)>>,
       <<"total_amount", fmt_2(b.total_fee)>>,
       <<"electricity_details", electricity_details(b.electricity_meters)>>,
       <<"electricity_meter_count", Dec(Len(b.electricity_meters))>> >>

\* the value of a field the MerchantBill of this repository does not have
NoSuchField == <<"?">>

\* template.rs: the tokens and their values, in the order of the code
template_pairs(b, now) ==
    << <<"merchant_name", b.merchant_name>>,
       <<"year", Dec(now.year)>>,
       <<"month", Dec(now.month)>>,
       <<"prev_electric_reading", NoSuchField>>,
       <<"curr_electric_reading", NoSuchField>>,
       <<"prev_water_reading", fmt_f64(b.prev_water_reading)>>,
       <<"curr_water_reading", fmt_f64(b.curr_water_reading)>>,
       <<"electricity_usage", fmt_f64(b.electricity_usage)>>,
       <<"water_usage", fmt_f64(b.water_usage)>>,
       <<"electricity_unit_price", fmt_2(b.electricity_unit_price)>>,
       <<"water_unit_price", fmt_2(b.water_unit_price)>>,
       <<"electricity_amount", fmt_2(b.electricity_amount)>>,
       <<"water_amount", fmt_2(b.water_amount)>>,
       <<"total_amount", fmt_2(b.total_fee)>> >>

\* mutant: only the first occurrence of a token is replaced
replace_placeholders_first_only(text, b, now) ==
    LET pairs == simple_pairs(b, now)
        once(t, pr) ==
            IF \E i \in 1..(Len(t) - 2) : SubSeq(t, i, i + 2) = Token(pr[1])
            THEN LET i == CHOOSE i \in 1..(Len(t) - 2) :
                             /\ SubSeq(t, i, i + 2) = Token(pr[1])
                             /\ \A j \in 1..(i - 1) : SubSeq(t, j, j + 2) # Token(pr[1])
                 IN SubSeq(t, 1, i - 1) \o pr[2] \o SubSeq(t, i + 3, Len(t))
            ELSE t
        F[k \in 0..Len(pairs)] == IF k = 0 THEN text ELSE once(F[k - 1], pairs[k])
    IN F[Len(pairs)]

\* template_simple.rs DocumentGenerator::replace_placeholders
replace_placeholders(text, b, now) == replace_all(text, simple_pairs(b, now))

\* template.rs DocumentGenerator::replace_placeholders
template_replace_placeholders(text, b, now) == replace_all(text, template_pairs(b, now))

(***************************************************************************)
(* Document assembly.  A document is the sequence of its elements; the     *)
(* paragraphs and the table of one record's notice are one element.        *)
(***************************************************************************)
Element(kind, i) == [kind |-> kind, i |-> i]
PageBreak == Element("page_break", 0)

Pending == [status |-> "pending", err |-> NoError, doc |-> <<>>]
Failed(e) == [status |-> "err", err |-> e, doc |-> <<>>]
Done(doc) == [status |-> "ok", err |-> NoError, doc |-> doc]

\* mutant: a page break after every record but the last, whatever per_page
RECURSIVE lib_notices_every(_, _, _)
lib_notices_every(merchants, per_page, index) ==
    IF index > Len(merchants) THEN <<>>
    ELSE <<Element("notice", index)>>
         \o (IF index < Len(merchants)
             THEN <<Element("separator", index), PageBreak>>
             ELSE <<>>)
         \o lib_notices_every(merchants, per_page, index + 1)

\* lib.rs: the loop over the records (index counts from 1 here, so the code's
\* "index < len - 1" reads index < len and "(index + 1) % per_page" reads
\* index % per_page)
RECURSIVE lib_notices(_, _, _)
lib_notices(merchants, per_page, index) ==
    IF index > Len(merchants) THEN <<>>
    ELSE <<Element("notice", index)>>
         \o (IF index < Len(merchants)
             THEN <<Element("separator", index)>>
                  \o (IF per_page # 0 /\ index % per_page = 0 THEN <<PageBreak>> ELSE <<>>)
             ELSE <<>>)
         \o lib_notices(merchants, per_page, index + 1)

\* lib.rs generate_word_document_with_template: the notices, a page break,
\* the summary table; never an error of its own
generate_word_document_with_template(merchants, per_page) ==
    Done(lib_notices(merchants, per_page, 1)
         \o <<PageBreak, Element("summary", Len(merchants))>>)

RECURSIVE main_bills(_, _)
main_bills(merchants, index) ==
    IF index > Len(merchants) THEN <<>>
    ELSE <<Element("bill", index)>>
         \o (IF index < Len(merchants) THEN <<PageBreak>> ELSE <<>>)
         \o main_bills(merchants, index + 1)

\* main.rs generate_word_document_with_template
main_generate_word_document_with_template(merchants) ==
    Done(<<Element("document_title", 0)>> \o main_bills(merchants, 1)
         \o <<Element("summary", Len(merchants))>>)

RECURSIVE template_bills(_, _)
template_bills(merchants, index) ==
    IF index > Len(merchants) THEN <<>>
    ELSE <<Element("sections", index)>>
         \o (IF index < Len(merchants) THEN <<PageBreak>> ELSE <<>>)
         \o template_bills(merchants, index + 1)

\* template_simple.rs DocumentGenerator::generate_complete_document
generate_complete_document(merchants) ==
    Done(<<Element("document_title", 0)>> \o template_bills(merchants, 1))

\* template.rs DocumentGenerator::generate_merchant_bill: the sections of the
\* one record, then a page break
generate_merchant_bill(b) == Done(<<Element("sections", 1), PageBreak>>)

\* mutant: the empty batch is reported and its document is returned with it
server_deliver_partial(merchants, per_page) ==
    IF merchants = <<>>
    THEN [Failed(NoValidData) EXCEPT !.doc = generate_word_document_with_template(merchants, per_page).doc]
    ELSE generate_word_document_with_template(merchants, per_page)

\* server.rs process_file_to_docx, once read_data_file has returned Ok(bills)
server_deliver(merchants, per_page) ==
    IF merchants = <<>> THEN Failed(NoValidData)
    ELSE generate_word_document_with_template(merchants, per_page)

\* main.rs main, once read_data_file has returned Ok(bills)
main_deliver(merchants) == main_generate_word_document_with_template(merchants)

(***************************************************************************)
(* Input tables                                                            *)
(***************************************************************************)
MaxMeterCols == 2
MaxRows == 2
MaxPerPage == 2

Formats == {"csv", "xlsx", "txt"}

RECURSIVE MeterHeaders(_)
MeterHeaders(k) ==
    IF k = 0 THEN <<>>
    ELSE MeterHeaders(k - 1)
         \o <<prev_pattern(ElectricityPrefix, k), curr_pattern(ElectricityPrefix, k)>>

\* a well-formed header row with k meter column pairs
CanonHeader(k) ==
    <<LblCode, LblMerchant>> \o MeterHeaders(k)
    \o <<LblWaterPrev, LblWaterCurr, LblWaterPrice, LblElecPrice, LblLabor, LblGarbage>>

Drop(seq, i) == SubSeq(seq, 1, i - 1) \o SubSeq(seq, i + 1, Len(seq))

\* the merchant-name label with white space around and inside it
HdrMerchantSpaced == <<" ", "dian_s", "pu", " ", "ming", "cheng", " ">>

\* the merchant-name label with white space before and a decoration after it
HdrMerchantDecorated == <<" ", "dian_s", "pu", "ming", "cheng", "(", "A", ")">>

\* the header rows whose merchant-name label is written another way
VariedHeaders ==
    {[CanonHeader(1) EXCEPT ![2] = h] : h \in {HdrMerchantSpaced, HdrMerchantDecorated}}

\* a file without a first line (CSV) or a sheet without a first row
NoHeaderRow == <<>>

\* the columns of meters 1 and 3 without those of meter 2
HdrMeterGap ==
    <<LblCode, LblMerchant>> \o MeterHeaders(1)
    \o <<prev_pattern(ElectricityPrefix, 3), curr_pattern(ElectricityPrefix, 3)>>
    \o <<LblWaterPrev, LblWaterCurr, LblWaterPrice, LblElecPrice, LblLabor, LblGarbage>>

\* the columns of meter 1 written twice
HdrMeterTwice ==
    <<LblCode, LblMerchant>> \o MeterHeaders(1) \o <<LblE1Curr, LblE1Prev>>
    \o <<LblWaterPrev, LblWaterCurr, LblWaterPrice, LblElecPrice, LblLabor, LblGarbage>>

\* the well-formed header rows, each of them with one column missing, and
\* the rows with a varied merchant-name label
HeaderRows ==
    {CanonHeader(k) : k \in 1..MaxMeterCols}
    \cup UNION {{Drop(CanonHeader(k), i) : i \in 1..Len(CanonHeader(k))} : k \in 1..MaxMeterCols}
    \cup VariedHeaders
    \cup {NoHeaderRow, HdrMeterGap, HdrMeterTwice}

\* A data row is described by the texts of its fields (meter 1, the other
\* meters, the current water reading, the labor fee) and by the number of
\* fields the line holds (0: as many as the header).
RowDesc(name, m1, mx, wc, fee, len) ==
    [name |-> name, m1 |-> m1, mx |-> mx, wc |-> wc, fee |-> fee, len |-> len]

RowDescs ==
    { RowDesc(<<"A">>, << <<"1">>, <<"3">> >>, << <<"0">>, <<"0">> >>, <<"2">>, <<"1", ".", "5">>, 0),
      RowDesc(<<"A">>, << <<"1">>, <<"2">> >>, << <<"2">>, <<"3">> >>, <<"3">>, <<"0">>, 0),
      RowDesc(<<>>, << <<"1">>, <<"2">> >>, << <<"2">>, <<"3">> >>, <<"2">>, <<"1", ".", "5">>, 0),
      RowDesc(<<" ">>, << <<"1">>, <<"2">> >>, << <<"2">>, <<"3">> >>, <<"2">>, <<"1", ".", "5">>, 0),
      RowDesc(<<"A">>, << <<"x">>, <<"2">> >>, << <<>>, <<"x">> >>, <<"x">>, <<"x">>, 0),
      RowDesc(<<"A">>, << <<"1">>, <<"2">> >>, << <<"0">>, <<"2">> >>, <<"2">>, <<"1", ".", "5">>, 5),
      RowDesc(<<"A">>, << <<"1">>, <<"2">> >>, << <<"0">>, <<"2">> >>, <<"2">>, <<"1", ".", "5">>, 4),
      RowDesc(<<"A">>, << <<"0">>, <<"0">> >>, << <<"0">>, <<"2">> >>, <<"0">>, <<"0">>, 0) }

FieldText(label, d) ==
    CASE Contains(label, LblMerchant) -> d.name
      [] label = LblCode -> <<"S">>
      [] label = LblWaterPrev -> <<"1">>
      [] label = LblWaterCurr -> d.wc
      [] label = LblWaterPrice -> <<"0", ".", "5">>
      [] label = LblElecPrice -> <<"0", ".", "5">>
      [] label = LblLabor -> d.fee
      [] label = LblGarbage -> <<"1">>
      [] label = LblE1Prev -> d.m1[1]
      [] label = LblE1Curr -> d.m1[2]
      [] Contains(label, SuffixPrev) -> d.mx[1]
      [] Contains(label, SuffixCurr) -> d.mx[2]
      [] OTHER -> <<>>

\* the cell a spreadsheet holds for a text: a number where the text is one
TypedCell(t) ==
    IF t = <<>> THEN DT_Empty
    ELSE IF parse_f64(t).ok THEN DT_Float(parse_f64(t).v)
    ELSE DT_String(t)

RowWidth(hs, d) == IF d.len = 0 \/ d.len > Len(hs) THEN Len(hs) ELSE d.len

\* a CSV line: the fields it holds, as text
CsvRow(hs, d) == [i \in 1..RowWidth(hs, d) |-> DT_String(FieldText(hs[i], d))]

\* a spreadsheet row: as wide as the sheet, the missing cells empty
ExcelRow(hs, d) ==
    [i \in 1..Len(hs) |->
        IF i <= RowWidth(hs, d) THEN TypedCell(FieldText(hs[i], d)) ELSE DT_Empty]

RowsOf(fmt, hs) ==
    IF fmt = "csv"
    THEN {CsvRow(hs, d) : d \in RowDescs} \cup {<<DT_String(<<" ">>)>>}
    ELSE {ExcelRow(hs, d) : d \in RowDescs}

PureIdle ==
    /\ arg = <<>>
    /\ result = <<>>

(***************************************************************************)
(* A run of the batch driver: read_data_file, then the caller              *)
(* (process_file_to_docx for lib.rs, main for main.rs).                    *)
(***************************************************************************)
BatchIdle ==
    /\ format = "csv"
    /\ headerRow = <<>>
    /\ pc = "idle"
    /\ colMap = NoCols
    /\ rowsRead = <<>>
    /\ bills = <<>>
    /\ perPage = 1
    /\ outcome = Pending

EngineIdle ==
    /\ bill = NoBill
    /\ template = BillTemplate_new
    /\ appended = <<>>

InitBatch ==
    /\ variant \in Variants
    /\ format \in Formats
    /\ headerRow \in HeaderRows
    /\ pc = "start"
    /\ colMap = NoCols
    /\ rowsRead = <<>>
    /\ bills = <<>>
    /\ perPage = 1
    /\ outcome = Pending
    /\ EngineIdle
    /\ PureIdle

\* what the reader sees of the header row: read_csv_file trims every label
seen_headers(fmt, hs) == IF fmt = "csv" THEN [i \in 1..Len(hs) |-> Trim(hs[i])] ELSE hs

\* read_data_file: an extension that is neither xlsx nor csv
UnsupportedFormat ==
    /\ pc = "start"
    /\ format \notin {"csv", "xlsx"}
    /\ pc' = "done"
    /\ outcome' = Failed(UnsupportedFormatError)
    /\ UNCHANGED <<variant, pureVars, engineVars, format, headerRow, colMap, rowsRead, bills, perPage>>

\* lines.next() / rows.next() is None: .context("…中缺少表头行")?
HeaderRowMissing ==
    /\ pc = "start"
    /\ format \in {"csv", "xlsx"}
    /\ headerRow = NoHeaderRow
    /\ pc' = "done"
    /\ outcome' = Failed(MissingHeaderRow)
    /\ UNCHANGED <<variant, pureVars, engineVars, format, headerRow, colMap, rowsRead, bills, perPage>>

\* the column lookups of read_csv_file / read_excel_file
ResolveHeaders ==
    /\ pc = "start"
    /\ format \in {"csv", "xlsx"}
    /\ headerRow # NoHeaderRow
    /\ LET r == resolve(variant, seen_headers(format, headerRow))
       IN IF r.ok
          THEN /\ colMap' = r.cols
               /\ pc' = "rows"
               /\ outcome' = outcome
          ELSE /\ colMap' = colMap
               /\ pc' = "done"
               /\ outcome' = Failed(r.err)
    /\ UNCHANGED <<variant, pureVars, engineVars, format, headerRow, rowsRead, bills, perPage>>

\* a row loop that puts each new record in front of the earlier ones
ReadRow_prepend ==
    /\ pc = "rows"
    /\ Len(rowsRead) < MaxRows
    /\ \E row \in RowsOf(format, headerRow) :
          LET r == read_row(variant, format, colMap, row)
          IN /\ rowsRead' = Append(rowsRead, row)
             /\ bills' = IF r.skip THEN bills ELSE <<r.bill>> \o bills
    /\ UNCHANGED <<variant, pureVars, engineVars, format, headerRow, pc, colMap, perPage, outcome>>

\* one iteration of the row loop
ReadRow ==
    /\ pc = "rows"
    /\ Len(rowsRead) < MaxRows
    /\ \E row \in RowsOf(format, headerRow) :
          LET r == read_row(variant, format, colMap, row)
          IN /\ rowsRead' = Append(rowsRead, row)
             /\ bills' = IF r.skip THEN bills ELSE Append(bills, r.bill)
    /\ UNCHANGED <<variant, pureVars, engineVars, format, headerRow, pc, colMap, perPage, outcome>>

\* read_csv_file: `let line = line?;` on a line that cannot be read (an I/O
\* error, bytes that are not UTF-8); the reader returns the error and its
\* record list is dropped
UnreadableLine ==
    /\ pc = "rows"
    /\ format = "csv"
    /\ pc' = "done"
    /\ bills' = <<>>
    /\ outcome' = Failed(UnreadableLineError)
    /\ UNCHANGED <<variant, pureVars, engineVars, format, headerRow, colMap, rowsRead, perPage>>

\* the rows are exhausted: the reader returns Ok(bills)
EndOfFile ==
    /\ pc = "rows"
    /\ pc' = "read_done"
    /\ UNCHANGED <<variant, pureVars, engineVars, format, headerRow, colMap, rowsRead, bills, perPage, outcome>>

\* the server turns the record list into the document, or fails; per_page
\* comes with the request
ServerDeliver ==
    /\ pc = "read_done"
    /\ variant = "lib"
    /\ pc' = "done"
    /\ \E per_page \in 0..MaxPerPage :
          /\ perPage' = per_page
          /\ outcome' = server_deliver(bills, per_page)
    /\ UNCHANGED <<variant, pureVars, engineVars, format, headerRow, colMap, rowsRead, bills>>

\* the command-line program turns the record list into the document
MainDeliver ==
    /\ pc = "read_done"
    /\ variant = "main"
    /\ pc' = "done"
    /\ outcome' = main_deliver(bills)
    /\ UNCHANGED <<variant, pureVars, engineVars, format, headerRow, colMap, rowsRead, bills, perPage>>

NextBatch ==
    \/ UnsupportedFormat
    \/ HeaderRowMissing
    \/ ResolveHeaders
    \/ ReadRow
    \/ UnreadableLine
    \/ EndOfFile
    \/ ServerDeliver
    \/ MainDeliver

SpecBatch == InitBatch /\ [][NextBatch]_vars

(***************************************************************************)
(* The Billing Engine as a state machine: one record, any sequence of the  *)
(* public operations.                                                      *)
(***************************************************************************)
Init ==
    /\ variant \in Variants
    /\ \E n \in Names, w \in Prices, e \in Prices : bill = MerchantBill_new(n, w, e)
    /\ template = BillTemplate_new
    /\ appended = <<>>
    /\ BatchIdle
    /\ PureIdle

New ==
    \E n \in Names, w \in Prices, e \in Prices :
        /\ bill' = MerchantBill_new(n, w, e)
        /\ UNCHANGED <<variant, pureVars, template, appended, batchVars>>

SetWaterReadings ==
    \E prev \in Readings, curr \in Readings :
        /\ bill' = set_water_readings(variant, bill, prev, curr)
        /\ UNCHANGED <<variant, pureVars, template, appended, batchVars>>

AddElectricityMeter ==
    /\ Len(bill.electricity_meters) < MaxMeters
    /\ \E prev \in Readings, curr \in Readings :
            bill' = add_electricity_meter(variant, bill,
                        Dec(Len(bill.electricity_meters) + 1), prev, curr)
    /\ UNCHANGED <<variant, pureVars, template, appended, batchVars>>

SetFees ==
    \E f \in FeePairs :
        /\ bill' = set_fees(variant, bill, f[1], f[2])
        /\ UNCHANGED <<variant, pureVars, template, appended, batchVars>>

UpdateTotals ==
    /\ bill' = update_totals(variant, bill)
    /\ UNCHANGED <<variant, pureVars, template, appended, batchVars>>

Next ==
    \/ New
    \/ SetWaterReadings
    \/ AddElectricityMeter
    \/ SetFees
    \/ UpdateTotals

Spec == Init /\ [][Next]_vars

(***************************************************************************)
(* The BillTemplate as a state machine: records built the way the readers  *)
(* build them (lib.rs) are appended one after the other.                   *)
(***************************************************************************)
\* sample inputs <<water price, electricity price, curr water, meter 1 curr,
\* meter 2 curr, fees>> (previous readings 0), in 1/Scale units
TplInputs ==
    { <<1, 1, 2, 2, 0, <<0, 0>> >>,
      <<1, 1, 2, 2, 2, <<3, 1>> >>,
      <<2, 1, 4, 0, 2, <<3, 1>> >>,
      <<1, 2, 0, 4, 2, <<0, 0>> >>,
      <<2, 2, 2, 2, 4, <<3, 1>> >>,
      <<1, -1, 6, 2, 0, <<3, 1>> >> }

TplBills ==
    { build_bill("lib", <<"A">>, <<"S">>, i[1], i[2], 0, i[3],
                 << <<0, i[4]>>, <<0, i[5]>> >>, i[6][1], i[6][2]) : i \in TplInputs }

InitTemplate ==
    /\ variant = "lib"
    /\ bill \in TplBills
    /\ template = BillTemplate_new
    /\ appended = <<>>
    /\ BatchIdle
    /\ PureIdle

\* the caller builds the next record
TplBuild ==
    /\ bill' \in TplBills
    /\ UNCHANGED <<variant, pureVars, template, appended, batchVars>>

TplAddMerchant ==
    /\ Len(template.merchants) < MaxMerchants
    /\ template' = add_merchant(template, bill)
    /\ appended' = Append(appended, bill)
    /\ UNCHANGED <<variant, pureVars, bill, batchVars>>

NextTemplate == TplBuild \/ TplAddMerchant

SpecTemplate == InitTemplate /\ [][NextTemplate]_vars

(***************************************************************************)
(* Claims about the Billing Engine (checked under Spec)                    *)
(***************************************************************************)
Abs(x) == IF x >= 0 THEN x ELSE -x

\* r is x rounded to the nearest whole currency unit, a half going away from
\* zero (x and r in 1/Scale units)
IsRoundedHalfAway(x, r) ==
    /\ r % Scale = 0
    /\ 2 * Abs(r - x) <= Scale
    /\ (2 * Abs(r - x) = Scale) => (Abs(r) > Abs(x))

\* C1: in every reachable state electricity_amount is
\* round(electricity_unit_price * (sum of the meters' usages)): summed first,
\* priced once, rounded once; the per-meter amounts do not enter it.
C1_ElectricityAmountSummedThenRounded ==
    bill.electricity_amount =
        round(mul(bill.electricity_unit_price, SumUsage(bill.electricity_meters)))

\* C1, restricted to the record of src/lib.rs (holds; the record of
\* src/main.rs is what violates C1)
C1_LibElectricityAmount ==
    (variant = "lib") => C1_ElectricityAmountSummedThenRounded

\* C2: after every operation the derived fields agree with the stored inputs:
\* electricity_usage is the sum of the meters' usages and total_fee is
\* water_amount + electricity_amount + labor fee + garbage fee.
C2_TotalsConsistent ==
    /\ bill.electricity_usage = SumUsage(bill.electricity_meters)
    /\ bill.total_fee = bill.water_amount + bill.electricity_amount
                        + bill.water_electricity_labor_fee + bill.garbage_disposal_fee

\* C2 witness: fees set, two meters added with usage, water usage set
C2_Witness ==
    /\ bill.water_electricity_labor_fee > 0
    /\ bill.garbage_disposal_fee > 0
    /\ Len(bill.electricity_meters) = 2
    /\ bill.electricity_usage = 2 * Scale
    /\ bill.water_usage > 0
    /\ bill.total_fee > bill.water_electricity_labor_fee + bill.garbage_disposal_fee

\* C3: every stored usage is max(curr - prev, 0) of the stored readings, and
\* water_usage, every meter's usage and electricity_usage are never negative.
C3_UsageClamped ==
    /\ bill.water_usage = Max(bill.curr_water_reading - bill.prev_water_reading, 0)
    /\ bill.water_usage >= 0
    /\ \A i \in 1..Len(bill.electricity_meters) :
          LET m == bill.electricity_meters[i]
          IN /\ m.usage = Max(m.curr_reading - m.prev_reading, 0)
             /\ m.usage >= 0
    /\ bill.electricity_usage >= 0

\* C3 witness: readings that regress (curr < prev) for the water meter and for
\* an electricity meter, next to a meter with positive usage
C3_Witness ==
    /\ bill.curr_water_reading < bill.prev_water_reading
    /\ bill.water_usage = 0
    /\ \E i, j \in 1..Len(bill.electricity_meters) :
          /\ bill.electricity_meters[i].curr_reading < bill.electricity_meters[i].prev_reading
          /\ bill.electricity_meters[i].usage = 0
          /\ bill.electricity_meters[j].usage > 0

\* C4: water_amount is water_usage * water_unit_price rounded to the nearest
\* whole unit, a half going away from zero, and electricity_amount is produced
\* by the same rounding of electricity_usage * electricity_unit_price.
C4_AmountsRoundedHalfAway ==
    /\ IsRoundedHalfAway(mul(bill.water_usage, bill.water_unit_price), bill.water_amount)
    /\ IsRoundedHalfAway(mul(bill.electricity_usage, bill.electricity_unit_price),
                         bill.electricity_amount)

\* C4, restricted to the record of src/lib.rs (holds; src/main.rs stores the
\* unrounded products)
C4_LibAmountsRounded ==
    (variant = "lib") => C4_AmountsRoundedHalfAway

\* a state of the lib.rs record where both products lie exactly halfway, one
\* positive and one negative
C4_LibHalfwayReached ==
    /\ variant = "lib"
    /\ mul(bill.water_usage, bill.water_unit_price) = 1
    /\ mul(bill.electricity_usage, bill.electricity_unit_price) = -1

(***************************************************************************)
(* Claims about the BillTemplate (checked under SpecTemplate)              *)
(***************************************************************************)
RECURSIVE SeqSum(_)
SeqSum(s) == IF s = <<>> THEN 0 ELSE SeqSum(Front(s)) + s[Len(s)]

\* C5: the running totals are the sums of the corresponding fields over the
\* appended records, and the record list is exactly the records passed to
\* add_merchant, in call order (nothing removed, nothing reordered).
C5_TemplateTotals ==
    LET ms == template.merchants
        n == Len(ms)
    IN /\ ms = appended
       /\ template.grand_total = SeqSum([i \in 1..n |-> ms[i].total_fee])
       /\ template.total_water_amount = SeqSum([i \in 1..n |-> ms[i].water_amount])
       /\ template.total_electric_amount = SeqSum([i \in 1..n |-> ms[i].electricity_amount])
       /\ template.total_water_usage = SeqSum([i \in 1..n |-> ms[i].water_usage])
       /\ template.total_electric_usage = SeqSum([i \in 1..n |-> ms[i].electricity_usage])

\* C5 witness: three records with distinct totals and fees appended
C5_Witness ==
    /\ Len(template.merchants) = 3
    /\ template.merchants[1].total_fee # template.merchants[2].total_fee
    /\ template.merchants[2].total_fee # template.merchants[3].total_fee
    /\ template.merchants[1].total_fee # template.merchants[3].total_fee
    /\ template.merchants[2].garbage_disposal_fee > 0
    /\ template.grand_total > template.total_water_amount + template.total_electric_amount

(***************************************************************************)
(* The assemblers on their own, applied to any record list                 *)
(***************************************************************************)
BoundedSeqs(S, n) == UNION {[1..k -> S] : k \in 0..n}

MaxRecords == 5

\* the records the assemblers are given
AssembleBills ==
    { build_bill("lib", <<"A">>, <<"S">>, 1, 1, 0, 2, << <<0, 2>>, <<0, 0>> >>, 0, 0),
      build_bill("lib", <<"B">>, <<"S">>, 1, 2, 0, 4, << <<0, 2>>, <<0, 4>> >>, 3, 1) }

InitAssemble ==
    /\ variant = "lib"
    /\ format = "csv"
    /\ headerRow = <<>>
    /\ pc = "assemble"
    /\ colMap = NoCols
    /\ rowsRead = <<>>
    /\ bills \in BoundedSeqs(AssembleBills, MaxRecords)
    /\ perPage = 1
    /\ outcome = Pending
    /\ EngineIdle
    /\ PureIdle

\* lib.rs generate_word_document_with_template(&bills, Some(options))
AssembleFixed ==
    /\ pc = "assemble"
    /\ pc' = "done"
    /\ \E per_page \in 0..MaxPerPage :
          /\ perPage' = per_page
          /\ outcome' = generate_word_document_with_template(bills, per_page)
    /\ UNCHANGED <<variant, pureVars, engineVars, format, headerRow, colMap, rowsRead, bills>>

\* template_simple.rs generate_complete_document(&bills)
AssembleFromTemplate ==
    /\ pc = "assemble"
    /\ pc' = "done_template"
    /\ outcome' = generate_complete_document(bills)
    /\ UNCHANGED <<variant, pureVars, engineVars, format, headerRow, colMap, rowsRead, bills, perPage>>

\* main.rs generate_word_document_with_template(&bills, None)
AssembleMain ==
    /\ pc = "assemble"
    /\ pc' = "done_main"
    /\ outcome' = main_generate_word_document_with_template(bills)
    /\ UNCHANGED <<variant, pureVars, engineVars, format, headerRow, colMap, rowsRead, bills, perPage>>

\* template.rs generate_merchant_bill(&bill), the record list holding bill
AssembleMerchantBill ==
    /\ pc = "assemble"
    /\ Len(bills) = 1
    /\ pc' = "done_merchant_bill"
    /\ outcome' = generate_merchant_bill(bills[1])
    /\ UNCHANGED <<variant, pureVars, engineVars, format, headerRow, colMap, rowsRead, bills, perPage>>

NextAssemble ==
    \/ AssembleFixed
    \/ AssembleFromTemplate
    \/ AssembleMain
    \/ AssembleMerchantBill

SpecAssemble == InitAssemble /\ [][NextAssemble]_vars

(***************************************************************************)
(* Claims about the readers and the callers (SpecBatch)                    *)
(***************************************************************************)
\* the reader has given up on a line it could not read
Aborted == outcome = Failed(UnreadableLineError)

Reading == pc \in {"rows", "read_done", "done"} /\ colMap # NoCols /\ ~Aborted

\* the trimmed text of the row's merchant-name cell
NameOf(row) ==
    IF colMap.m_i \in 1..Len(row) THEN Trim(cell_to_string(row[colMap.m_i])) ELSE <<>>

HasName(row) == NameOf(row) # <<>>

\* the number a cell stands for; 0 for a missing or non-numeric cell
NumberOf(row, i) ==
    IF i \notin 1..Len(row) THEN 0
    ELSE IF row[i].t = "Float" THEN row[i].f
    ELSE IF row[i].t = "String" /\ parse_f64(Trim(row[i].s)).ok THEN parse_f64(Trim(row[i].s)).v
    ELSE 0

IsJunk(row, i) ==
    i \in 1..Len(row) /\ row[i].t = "String" /\ ~parse_f64(Trim(row[i].s)).ok

MeterIds(b) == {b.electricity_meters[j].meter_id : j \in 1..Len(b.electricity_meters)}

\* the rows the reader turned into records
RecordedRows == SelectSeq(rowsRead, LAMBDA row : ~read_row(variant, format, colMap, row).skip)

\* C6: a meter column pair gives a row's record a meter exactly when the
\* previous or the current reading of the pair is greater than 0; a pair
\* whose readings are both 0 is left out of the record.
C6_MeterKeptIffReadingPositive ==
    Reading =>
        /\ Len(bills) = Len(RecordedRows)
        /\ \A i \in 1..Len(bills) :
              \A k \in 1..Len(colMap.electricity_columns) :
                 LET prev == NumberOf(RecordedRows[i], colMap.electricity_columns[k][1])
                     curr == NumberOf(RecordedRows[i], colMap.electricity_columns[k][2])
                 IN (Dec(k) \in MeterIds(bills[i])) <=> (prev > 0 \/ curr > 0)

\* a record of a row with one pair reading 0 and 0 (left out) and another
\* pair with only the current reading above 0 (kept)
C6_Witness ==
    /\ Reading
    /\ Len(bills) = Len(RecordedRows)
    /\ \E i \in 1..Len(bills) :
          \E k1, k2 \in 1..Len(colMap.electricity_columns) :
             /\ NumberOf(RecordedRows[i], colMap.electricity_columns[k1][1]) = 0
             /\ NumberOf(RecordedRows[i], colMap.electricity_columns[k1][2]) = 0
             /\ Dec(k1) \notin MeterIds(bills[i])
             /\ NumberOf(RecordedRows[i], colMap.electricity_columns[k2][1]) = 0
             /\ NumberOf(RecordedRows[i], colMap.electricity_columns[k2][2]) > 0
             /\ Dec(k2) \in MeterIds(bills[i])

\* C7: a row with an empty merchant name is left out of the batch and the
\* other rows are read as if it were not there; the finished run succeeds
\* when the record list is non-empty and fails, without a document, when
\* the record list is empty.
C7_EmptyNameExcludedEmptyBatchFails ==
    (pc = "done" /\ colMap # NoCols /\ ~Aborted) =>
        /\ bills = read_rows(variant, format, colMap, SelectSeq(rowsRead, HasName))
        /\ bills # <<>> => outcome.status = "ok"
        /\ bills = <<>> => (outcome.status = "err" /\ outcome.doc = <<>>)

\* C7 for the server alone (lib.rs readers, server.rs caller)
C7_ServerEmptyBatchFails ==
    (variant = "lib" /\ pc = "done" /\ colMap # NoCols /\ ~Aborted) =>
        /\ bills = read_rows(variant, format, colMap, SelectSeq(rowsRead, HasName))
        /\ bills # <<>> => outcome.status = "ok"
        /\ bills = <<>> => outcome = Failed(NoValidData)

\* the command-line program has read rows without a merchant name only and
\* has written a document all the same
C7_CliDocumentFromEmptyBatch ==
    /\ variant = "main"
    /\ pc = "done"
    /\ rowsRead # <<>>
    /\ \A i \in 1..Len(rowsRead) : ~HasName(rowsRead[i])
    /\ bills = <<>>
    /\ outcome.status = "ok"
    /\ outcome.doc # <<>>

\* C8: the assembler, handed an empty record list, fails and returns no
\* document.
C8_AssemblerFailsOnEmptyList ==
    (pc \in {"done", "done_template"} /\ bills = <<>>) =>
        (outcome.status = "err" /\ outcome.doc = <<>>)

\* the fixed-layout assembler has returned a document for the empty list
C8_EmptyListAssembled ==
    /\ pc = "done"
    /\ bills = <<>>
    /\ outcome = Done(<<PageBreak, Element("summary", 0)>>)

\* C9 as stated: every row read whose merchant name is not empty has its
\* record, whatever its cells hold and however short it is.
C9_NamedRowAlwaysRecorded ==
    Reading => Len(bills) = Len(SelectSeq(rowsRead, HasName))

\* the rows C9 is about once the CSV field-count rule is taken into account
Eligible(row) == HasName(row) /\ (format = "csv" => Len(row) >= 5)

\* C9 (amended): every row read whose merchant name is not empty and which,
\* in a CSV file, has at least 5 fields has its record, in row order; a
\* missing or non-numeric cell of it is stored as 0.
C9_NamedRowRecordedCellsCoerced ==
    Reading =>
        LET rows == SelectSeq(rowsRead, Eligible)
        IN /\ Len(bills) = Len(rows)
           /\ \A i \in 1..Len(bills) :
                 /\ Trim(bills[i].merchant_name) = NameOf(rows[i])
                 /\ bills[i].prev_water_reading = NumberOf(rows[i], colMap.wp_i)
                 /\ bills[i].curr_water_reading = NumberOf(rows[i], colMap.wc_i)
                 /\ bills[i].water_unit_price = NumberOf(rows[i], colMap.wprice_i)
                 /\ bills[i].electricity_unit_price = NumberOf(rows[i], colMap.eprice_i)
                 /\ variant = "lib" =>
                        /\ bills[i].water_electricity_labor_fee = NumberOf(rows[i], colMap.labor_fee_i)
                        /\ bills[i].garbage_disposal_fee = NumberOf(rows[i], colMap.garbage_fee_i)

\* two records: one of a row with a non-numeric water reading, stored as 0,
\* and one of a row that ends before the water reading column
C9_Witness ==
    /\ Reading
    /\ Len(rowsRead) = 2
    /\ Len(bills) = 2
    /\ \E i, j \in 1..2 :
          /\ IsJunk(rowsRead[i], colMap.wc_i)
          /\ bills[i].curr_water_reading = 0
          /\ Len(rowsRead[j]) < colMap.wc_i
          /\ bills[j].curr_water_reading = 0

\* the labels the lib.rs readers require that no header contains
MissingLabels ==
    {RequiredLib[k] : k \in 1..Len(RequiredLib)} \ 
    {l \in {RequiredLib[k] : k \in 1..Len(RequiredLib)} :
        \E i \in 1..Len(headerRow) : Contains(seen_headers(format, headerRow)[i], l)}

\* C10: when a required column is missing from the header row, the lib.rs
\* reader stops with a column-not-found error that names a missing field,
\* and no record and no document is produced.
C10_MissingColumnIsError ==
    (variant = "lib" /\ format \in {"csv", "xlsx"} /\ pc # "start"
        /\ headerRow # NoHeaderRow /\ MissingLabels # {}) =>
        /\ pc = "done"
        /\ outcome.status = "err"
        /\ outcome.err.kind = "column_not_found"
        /\ outcome.err.field \in MissingLabels
        /\ outcome.doc = <<>>
        /\ bills = <<>>
        /\ rowsRead = <<>>

C10_Witness ==
    /\ variant = "lib"
    /\ pc = "done"
    /\ MissingLabels = {LblGarbage}
    /\ outcome = Failed(ColumnNotFound(LblGarbage))

\* the required labels of the lib.rs readers, as a set
RequiredLabels == {RequiredLib[k] : k \in 1..Len(RequiredLib)}

\* the header row holds a normalised match of the label
NormMatch(hs, l) == \E i \in 1..Len(hs) : Contains(normalize(hs[i]), normalize(l))

\* the first header that is a normalised match of the label
FirstNormMatch(hs, l) ==
    CHOOSE i \in 1..Len(hs) :
        /\ Contains(normalize(hs[i]), normalize(l))
        /\ \A j \in 1..(i - 1) : ~Contains(normalize(hs[j]), normalize(l))

Resolved == variant = "lib" /\ format \in {"csv", "xlsx"} /\ pc # "start"

\* C11 (amended): the lib.rs lookup succeeds exactly when every required
\* label has a header that contains it after trimming and case-folding, and
\* the merchant-name column is the first such header; the decorated label
\* " 店铺名称(A)" resolves, and the label " 店铺 名称 ", with white space inside
\* it, is a missing column.
C11_LookupByNormalisedContainment ==
    Resolved =>
        /\ (colMap # NoCols) <=> (\A l \in RequiredLabels : NormMatch(headerRow, l))
        /\ colMap # NoCols => colMap.m_i = FirstNormMatch(headerRow, LblMerchant)
        /\ headerRow = [CanonHeader(1) EXCEPT ![2] = HdrMerchantDecorated] =>
              (colMap # NoCols /\ colMap.m_i = 2)
        /\ headerRow = [CanonHeader(1) EXCEPT ![2] = HdrMerchantSpaced] =>
              (pc = "done" /\ outcome = Failed(ColumnNotFound(LblMerchant)))

\* C11 as stated: the rule, and its example: a header row whose merchant-name label
\* is written " 店铺 名称 " (white space around and inside the label), every
\* other required column being present, resolves, the merchant-name column
\* being that header.
C11_NormalisedSubstringMatch ==
    /\ Resolved =>
          ((colMap # NoCols) <=> (\A l \in RequiredLabels : NormMatch(headerRow, l)))
    /\ (Resolved /\ headerRow = [CanonHeader(1) EXCEPT ![2] = HdrMerchantSpaced]) =>
          (colMap # NoCols /\ colMap.m_i = 2)

\* the reader has rejected the header row with the label " 店铺 名称 "
C11_SpacedHeaderRejected ==
    /\ Resolved
    /\ headerRow = [CanonHeader(1) EXCEPT ![2] = HdrMerchantSpaced]
    /\ pc = "done"
    /\ outcome = Failed(ColumnNotFound(LblMerchant))

\* the reader has resolved the decorated label " 店铺名称(A)"
C11_DecoratedHeaderResolved ==
    /\ Resolved
    /\ headerRow = [CanonHeader(1) EXCEPT ![2] = HdrMerchantDecorated]
    /\ colMap # NoCols
    /\ colMap.m_i = 2
    /\ bills # <<>>

(***************************************************************************)
(* Claims about the assemblers (SpecAssemble)                              *)
(***************************************************************************)
RECURSIVE CountOf(_, _)
CountOf(doc, e) ==
    IF doc = <<>> THEN 0
    ELSE (IF Head(doc) = e THEN 1 ELSE 0) + CountOf(Tail(doc), e)

\* C12: in the fixed layout over n >= 1 records the notices hold
\* floor((n-1)/per_page) page breaks when per_page > 0 and none when
\* per_page = 0, a page break following the separator of record i exactly
\* when i is not the last record and i is a multiple of per_page; the
\* document ends with one more page break and then the summary table.
C12_PageBreaksPerPage ==
    (pc = "done" /\ Len(bills) >= 1) =>
        LET doc == outcome.doc
            n == Len(bills)
            internal == CountOf(doc, PageBreak) - 1
        IN /\ outcome.status = "ok"
           /\ internal = IF perPage = 0 THEN 0 ELSE (n - 1) \div perPage
           /\ (perPage = 2 /\ n = 5) => internal = 2
           /\ perPage = 1 => internal = n - 1
           /\ \A i \in 1..(n - 1) :
                 \E j \in 1..(Len(doc) - 1) :
                    /\ doc[j] = Element("separator", i)
                    /\ doc[j + 1] = PageBreak <=> (perPage # 0 /\ i % perPage = 0)
           /\ doc[Len(doc)] = Element("summary", n)
           /\ doc[Len(doc) - 1] = PageBreak
           /\ doc[Len(doc) - 2] = Element("notice", n)

\* five records, two to a page: two page breaks among the notices
C12_Witness ==
    /\ pc = "done"
    /\ Len(bills) = 5
    /\ perPage = 2
    /\ CountOf(outcome.doc, PageBreak) = 3

(***************************************************************************)
(* The currency formatter applied to amounts of at most two decimals       *)
(***************************************************************************)
MaxCents == 130

\* the amounts, in cents: the small ones, and larger ones with zero digits
CentAmounts ==
    (0..MaxCents) \cup {10000, 10050, 10100, 100005, 1000000, 1000100, 10000000, 100100000}

\* amounts from 10^8 yuan on, in cents, by their decimal digits: 亿 with
\* zero digits under it, and one of 16 digits
WideAmounts ==
    { <<1, 0, 0, 0, 0, 0, 0, 0, 0, 0, 0>>,
      <<1, 0, 0, 0, 0, 0, 0, 0, 1, 0, 0>>,
      <<1, 0, 0, 0, 0, 0, 0, 0, 0, 0, 0, 0>>,
      <<1, 0, 2, 0, 0, 0, 0, 0, 0, 5, 0, 0>>,
      <<2, 0, 0, 3, 0, 0, 0, 4, 0, 0, 5, 0, 6>>,
      <<1, 0, 0, 0, 0, 0, 0, 0, 0, 0, 0, 0, 0, 0, 0, 0>> }

InitCurrency ==
    /\ variant = "lib"
    /\ EngineIdle
    /\ BatchIdle
    /\ arg \in {[cents |-> c, wide |-> <<>>] : c \in CentAmounts}
             \cup {[cents |-> 0, wide |-> w] : w \in WideAmounts}
    /\ result = <<>>

\* rmb_upper(amount)
FormatAmount ==
    /\ result = <<>>
    /\ arg.wide = <<>>
    /\ result' = rmb_upper(arg.cents)
    /\ UNCHANGED <<variant, engineVars, batchVars, arg>>

\* rmb_upper(amount) for an amount from 10^8 yuan on
FormatWideAmount ==
    /\ result = <<>>
    /\ arg.wide # <<>>
    /\ result' = rmb_text(arg.wide)
    /\ UNCHANGED <<variant, engineVars, batchVars, arg>>

NextCurrency == FormatAmount \/ FormatWideAmount

SpecCurrency == InitCurrency /\ [][NextCurrency]_vars

Formatted == result # <<>> /\ arg.wide = <<>>

\* C13: rmb_upper(0) = "零元整", rmb_upper(1) = "壹元整",
\* rmb_upper(100.5) = "壹佰元伍角", rmb_upper(10000) = "壹万元整".
C13_ReferenceStrings ==
    Formatted =>
        /\ arg.cents = 0 => result = <<"ling", "yuan", "zheng">>
        /\ arg.cents = 100 => result = <<"yi_1", "yuan", "zheng">>
        /\ arg.cents = 10050 => result = <<"yi_1", "bai", "yuan", "wu", "jiao">>
        /\ arg.cents = 1000000 => result = <<"yi_1", "wan", "yuan", "zheng">>

\* 100.5 has been formatted
C13_Witness ==
    /\ arg.cents = 10050
    /\ result = <<"yi_1", "bai", "yuan", "wu", "jiao">>

\* C14: the string ends in "整" exactly when the amount in cents is a
\* multiple of 100; otherwise it holds a 角 or a 分 and no "整".
C14_ZhengIffWholeYuan ==
    Formatted =>
        /\ (result[Len(result)] = Zheng) <=> (arg.cents % 100 = 0)
        /\ arg.cents % 100 # 0 =>
              /\ Contains(result, <<"jiao">>) \/ Contains(result, <<"fen">>)
              /\ ~Contains(result, <<Zheng>>)
        /\ arg.cents % 10 # 0 <=> Contains(result, <<"fen">>)
        /\ (arg.cents \div 10) % 10 # 0 <=> Contains(result, <<"jiao">>)

\* an amount with cents and one without have been formatted
C14_Witness ==
    /\ Formatted
    /\ arg.cents = 100005
    /\ result[Len(result)] = "fen"
    /\ ~Contains(result, <<Zheng>>)

(***************************************************************************)
(* Idempotence of the Billing Engine operations (Spec)                     *)
(***************************************************************************)
WaterTwiceIsOnce ==
    \A prev \in Readings, curr \in Readings :
        set_water_readings(variant, set_water_readings(variant, bill, prev, curr), prev, curr)
            = set_water_readings(variant, bill, prev, curr)

FeesTwiceIsOnce ==
    \A f \in FeePairs :
        set_fees(variant, set_fees(variant, bill, f[1], f[2]), f[1], f[2])
            = set_fees(variant, bill, f[1], f[2])

TotalsTwiceIsOnce ==
    update_totals(variant, update_totals(variant, bill)) = update_totals(variant, bill)

MeterTwiceIsOnce ==
    \A prev \in Readings, curr \in Readings :
        add_electricity_meter(variant, add_electricity_meter(variant, bill, Dec(1), prev, curr), Dec(1), prev, curr)
            = add_electricity_meter(variant, bill, Dec(1), prev, curr)

\* C15 as stated: set_water_readings, add_meter, set_fees and update_totals
\* applied a second time with the same arguments leave the record as the
\* first application left it.
C15_EveryOperationIdempotent ==
    /\ WaterTwiceIsOnce
    /\ MeterTwiceIsOnce
    /\ FeesTwiceIsOnce
    /\ TotalsTwiceIsOnce

\* C15 (amended): set_water_readings, set_fees and update_totals applied a
\* second time with the same arguments leave the record as the first
\* application left it; add_meter applied a second time appends a second
\* reading with the same id and the totals count both.
C15_IdempotentButAddMeter ==
    /\ WaterTwiceIsOnce
    /\ FeesTwiceIsOnce
    /\ TotalsTwiceIsOnce
    /\ \A prev \in Readings, curr \in Readings :
          LET once == add_electricity_meter(variant, bill, Dec(1), prev, curr)
              twice == add_electricity_meter(variant, once, Dec(1), prev, curr)
          IN /\ Len(twice.electricity_meters) = Len(bill.electricity_meters) + 2
             /\ twice.electricity_usage = once.electricity_usage + usage_of(prev, curr)

\* a record with water usage, a meter with usage and fees, the totals
\* recomputed
C15_Witness ==
    /\ bill.water_usage > 0
    /\ Len(bill.electricity_meters) >= 1
    /\ bill.electricity_usage > 0
    /\ bill.water_electricity_labor_fee > 0
    /\ bill.total_fee > 0
    /\ update_totals(variant, bill) = bill

(***************************************************************************)
(* Placeholder substitution applied to template texts                      *)
(***************************************************************************)
MaxPieces == 2

\* the names the claim lists as recognised
RecognisedNames ==
    { "merchant_name", "year", "month", "prev_water_reading", "curr_water_reading",
      "water_usage", "electricity_usage", "water_unit_price", "electricity_unit_price",
      "water_amount", "electricity_amount", "total_amount", "electricity_details",
      "electricity_meter_count" }

\* the pieces the template texts are made of: the recognised tokens, other
\* brace tokens, and text that is no token
Pieces ==
    {Token(n) : n \in RecognisedNames}
    \cup {Token("prev_electric_reading"), Token("shop_code"), <<"a">>, <<"{">>, <<"}">>, <<"year">>}

TemplateTexts == {Join(ps) : ps \in BoundedSeqs(Pieces, MaxPieces)}

\* the record substituted: two meters, as main.rs builds it
PlaceholderBill ==
    build_bill("main", <<"B">>, <<>>, 1, 2, 0, 4, << <<0, 2>>, <<0, 4>> >>,
               MainLaborFee * Scale, MainGarbageFee * Scale)

Clock == [year |-> 2026, month |-> 11]

InitPlaceholders ==
    /\ variant = "main"
    /\ EngineIdle
    /\ BatchIdle
    /\ arg \in {[text |-> t, bill |-> PlaceholderBill, now |-> Clock] : t \in TemplateTexts}
    /\ result = <<>>

\* template_simple.rs replace_placeholders(text, bill)
SubstituteSimple ==
    /\ result = <<>>
    /\ result' = [by |-> "template_simple", text |-> replace_placeholders(arg.text, arg.bill, arg.now)]
    /\ UNCHANGED <<variant, engineVars, batchVars, arg>>

\* template.rs replace_placeholders(text, bill)
SubstituteTemplate ==
    /\ result = <<>>
    /\ result' = [by |-> "template", text |-> template_replace_placeholders(arg.text, arg.bill, arg.now)]
    /\ UNCHANGED <<variant, engineVars, batchVars, arg>>

NextPlaceholders ==
    \/ SubstituteSimple
    \/ SubstituteTemplate

SpecPlaceholders == InitPlaceholders /\ [][NextPlaceholders]_vars

\* the record's value for a name
ValueOf(pairs, name) ==
    LET k == CHOOSE k \in 1..Len(pairs) : pairs[k][1] = name IN pairs[k][2]

\* one pass over the text from the left: a token whose name is in names is
\* replaced by its value, everything else is copied
RECURSIVE ScanFrom(_, _, _, _)
ScanFrom(text, i, names, pairs) ==
    LET tokens == {j \in i..(Len(text) - 2) :
                      text[j] = "{" /\ text[j + 2] = "}" /\ text[j + 1] \in names}
    IN IF tokens = {} THEN SubSeq(text, i, Len(text))
       ELSE LET j == CHOOSE j \in tokens : \A k \in tokens : j <= k
            IN SubSeq(text, i, j - 1) \o ValueOf(pairs, text[j + 1])
               \o ScanFrom(text, j + 3, names, pairs)

Scan(text, names, pairs) == ScanFrom(text, 1, names, pairs)

NamesOf(pairs) == {pairs[k][1] : k \in 1..Len(pairs)}

\* C16 as stated: both replace_placeholders replace every occurrence of
\* each of the fourteen listed tokens by the record's value and copy every
\* other brace token and all other text.
C16_ListedTokensReplaced ==
    result # <<>> =>
        result.text = Scan(arg.text, RecognisedNames, simple_pairs(arg.bill, arg.now))

\* C16 (amended): template_simple.rs replaces every occurrence of each of
\* the fourteen listed tokens by the record's value and copies every other
\* brace token and all other text; template.rs does the same for the tokens
\* it knows, which are the listed ones without {electricity_details} and
\* {electricity_meter_count}, which it copies, and with
\* {prev_electric_reading} and {curr_electric_reading}.
C16_KnownTokensReplaced ==
    result # <<>> =>
        /\ NamesOf(simple_pairs(arg.bill, arg.now)) = RecognisedNames
        /\ NamesOf(template_pairs(arg.bill, arg.now)) =
              (RecognisedNames \ {"electricity_details", "electricity_meter_count"})
              \cup {"prev_electric_reading", "curr_electric_reading"}
        /\ result.by = "template_simple" =>
              result.text = Scan(arg.text, RecognisedNames, simple_pairs(arg.bill, arg.now))
        /\ result.by = "template" =>
              result.text = Scan(arg.text, NamesOf(template_pairs(arg.bill, arg.now)),
                                 template_pairs(arg.bill, arg.now))

\* a text with the same token twice, both replaced by template_simple.rs
C16_Witness ==
    /\ result # <<>>
    /\ result.by = "template_simple"
    /\ arg.text = Token("merchant_name") \o Token("merchant_name")
    /\ result.text = <<"B", "B">>

\* the layouts that render one section sequence per merchant
TemplateDone == pc \in {"done_template", "done_main", "done_merchant_bill"}

IsMerchantPart(e) == e.kind \in {"sections", "bill"}

\* C17: in the template layout over n >= 1 records the document holds
\* exactly n - 1 page breaks: one directly after the sections of every
\* merchant but the last, none after the last merchant's sections.
C17_PageBreakBetweenMerchants ==
    (TemplateDone /\ Len(bills) >= 1) =>
        LET doc == outcome.doc
            n == Len(bills)
        IN /\ outcome.status = "ok"
           /\ CountOf(doc, PageBreak) = n - 1
           /\ \A j \in 1..Len(doc) :
                 IsMerchantPart(doc[j]) =>
                    ((j < Len(doc) /\ doc[j + 1] = PageBreak) <=> doc[j].i < n)

\* C17 for generate_complete_document and the layout of main.rs
C17_CompleteDocumentPageBreaks ==
    (pc \in {"done_template", "done_main"} /\ Len(bills) >= 1) =>
        /\ CountOf(outcome.doc, PageBreak) = Len(bills) - 1
        /\ \A j \in 1..Len(outcome.doc) :
              IsMerchantPart(outcome.doc[j]) =>
                 ((j < Len(outcome.doc) /\ outcome.doc[j + 1] = PageBreak)
                     <=> outcome.doc[j].i < Len(bills))

\* generate_merchant_bill has returned one merchant's sections followed by
\* a page break
C17_BreakAfterOnlyMerchant ==
    /\ pc = "done_merchant_bill"
    /\ Len(bills) = 1
    /\ outcome.doc[Len(outcome.doc)] = PageBreak

\* the fatal errors C18 lists
FatalErrors ==
    { UnsupportedFormatError, MissingHeaderRow, NoMeterColumns, UnreadableLineError, NoValidData }
    \cup {ColumnNotFound(l) : l \in RequiredLabels}

\* C18: nothing is delivered before the run ends; a finished run has
\* either delivered the document and no error, or an error and nothing
\* else: no document, and no record list is left.
C18_AllOrNothing ==
    /\ pc # "done" => outcome = Pending
    /\ pc = "done" =>
          \/ /\ outcome.status = "ok"
             /\ outcome.err = NoError
             /\ outcome.doc # <<>>
          \/ /\ outcome.status = "err"
             /\ outcome.err \in FatalErrors
             /\ outcome.doc = <<>>
             /\ bills = <<>>

\* the server's run has failed on an unreadable line after rows that gave
\* records
C18_Witness ==
    /\ variant = "lib"
    /\ pc = "done"
    /\ outcome = Failed(UnreadableLineError)
    /\ RecordedRows # <<>>
    /\ bills = <<>>

\* C19: every record of the batch carries the numbers of its row's labor
\* fee cell and garbage fee cell (0 for a missing or non-numeric cell).
C19_FeesEnteredFromInput ==
    Reading =>
        /\ Len(bills) = Len(RecordedRows)
        /\ \A i \in 1..Len(bills) :
              /\ bills[i].water_electricity_labor_fee = NumberOf(RecordedRows[i], colMap.labor_fee_i)
              /\ bills[i].garbage_disposal_fee = NumberOf(RecordedRows[i], colMap.garbage_fee_i)

\* C19, the readers of lib.rs alone: their records carry the numbers of the
\* two fee cells.
C19_ServerFeesEnteredFromInput == (variant = "lib") => C19_FeesEnteredFromInput

\* C19: a record of the command-line readers carries the fixed fees of
\* main.rs, which are not the numbers of its row's fee cells
C19_CliFixedFees ==
    /\ variant = "main"
    /\ Reading
    /\ Len(bills) = Len(RecordedRows)
    /\ \E i \in 1..Len(bills) :
          /\ bills[i].water_electricity_labor_fee # NumberOf(RecordedRows[i], colMap.labor_fee_i)
          /\ bills[i].garbage_disposal_fee # NumberOf(RecordedRows[i], colMap.garbage_fee_i)

\* both columns of meter N have a header
MeterMatched(hs, N) ==
    /\ NormMatch(hs, prev_pattern(ElectricityPrefix, N))
    /\ NormMatch(hs, curr_pattern(ElectricityPrefix, N))

\* the length of the run of meter numbers, from 1 on, with both columns
MeterRun(hs) ==
    CHOOSE K \in 0..Len(hs) :
        /\ \A N \in 1..K : MeterMatched(hs, N)
        /\ ~MeterMatched(hs, K + 1)

\* the header row has been looked up and no labelled column was missing
Discovered ==
    /\ format \in {"csv", "xlsx"}
    /\ pc # "start"
    /\ headerRow # NoHeaderRow
    /\ outcome.err.kind # "column_not_found"

\* C20: the meter columns found are those of meters 1..K, K >= 1 the
\* length of the run of meter numbers from 1 on that have both columns, each
\* pair the first header containing the previous-reading pattern and the
\* first containing the current-reading pattern; columns of meters after the
\* first missing number are left out; with K = 0 the lookup is an error.
C20_DiscoveryIsMaximalRun ==
    Discovered =>
        LET hs == seen_headers(format, headerRow)
            K == MeterRun(hs)
        IN IF K = 0
           THEN outcome = Failed(NoMeterColumns) /\ colMap = NoCols /\ bills = <<>>
           ELSE /\ outcome.err # NoMeterColumns
                /\ Len(colMap.electricity_columns) = K
                /\ \A N \in 1..K :
                      colMap.electricity_columns[N] =
                          << FirstNormMatch(hs, prev_pattern(ElectricityPrefix, N)),
                             FirstNormMatch(hs, curr_pattern(ElectricityPrefix, N)) >>

\* meter 3 has its columns, meter 2 has not: meter 1 alone is found
C20_Witness ==
    /\ Discovered
    /\ MeterMatched(seen_headers(format, headerRow), 3)
    /\ ~MeterMatched(seen_headers(format, headerRow), 2)
    /\ Len(colMap.electricity_columns) = 1

\* C20: no meter has both of its columns and the lookup is an error
C20_NoMeterIsError ==
    /\ Discovered
    /\ MeterRun(seen_headers(format, headerRow)) = 0
    /\ outcome = Failed(NoMeterColumns)

\* C20: a meter column written twice is found at its first header
C20_FirstOfTwo ==
    /\ Discovered
    /\ headerRow = HdrMeterTwice
    /\ colMap.electricity_columns = << <<3, 4>> >>

(***************************************************************************)
(* Header resolution of lib.rs on its own, for any prefix of the caller.   *)
(***************************************************************************)
OtherPrefix == <<"X">>
Prefixes == {ElectricityPrefix, OtherPrefix}

\* the columns of meter 1, and those of meters 1 and 2 under another prefix
HdrOtherPrefix ==
    <<LblCode, LblMerchant>> \o MeterHeaders(1)
    \o <<prev_pattern(OtherPrefix, 1), curr_pattern(OtherPrefix, 1),
         prev_pattern(OtherPrefix, 2), curr_pattern(OtherPrefix, 2)>>
    \o <<LblWaterPrev, LblWaterCurr, LblWaterPrice, LblElecPrice, LblLabor, LblGarbage>>

\* one header for the previous readings of meters 1 and 2, one for the
\* current readings of both
HdrMeterShared ==
    <<LblCode, LblMerchant,
      LblE1Prev \o <<"/">> \o prev_pattern(ElectricityPrefix, 2),
      LblE1Curr \o <<"/">> \o curr_pattern(ElectricityPrefix, 2)>>
    \o <<LblWaterPrev, LblWaterCurr, LblWaterPrice, LblElecPrice, LblLabor, LblGarbage>>

ResolveHeaderRows == (HeaderRows \ {NoHeaderRow}) \cup {HdrOtherPrefix, HdrMeterShared}

InitResolve ==
    /\ variant = "lib"
    /\ EngineIdle
    /\ BatchIdle
    /\ arg \in {[headers |-> h, prefix |-> p] : h \in ResolveHeaderRows, p \in Prefixes}
    /\ result = <<>>

\* read_csv_file: the header line is split and each field trimmed
ResolveCsv ==
    /\ result = <<>>
    /\ result' = [by |-> "csv", r |-> lib_resolve_with(seen_headers("csv", arg.headers), arg.prefix)]
    /\ UNCHANGED <<variant, engineVars, batchVars, arg>>

\* read_excel_file: the header cells as they are
ResolveExcel ==
    /\ result = <<>>
    /\ result' = [by |-> "xlsx", r |-> lib_resolve_with(seen_headers("xlsx", arg.headers), arg.prefix)]
    /\ UNCHANGED <<variant, engineVars, batchVars, arg>>

NextResolve == ResolveCsv \/ ResolveExcel

SpecResolve == InitResolve /\ [][NextResolve]_vars

\* the headers the reader looked at, the pair of the dedicated lookup, what
\* discovery returned and the list the reader kept
SeenOf == seen_headers(result.by, arg.headers)
MeterOnePair == <<position(SeenOf, LblE1Prev), position(SeenOf, LblE1Curr)>>
DiscoveredPairs ==
    LET K == CHOOSE K \in 0..Len(SeenOf) :
                 /\ \A N \in 1..K : /\ NormMatch(SeenOf, prev_pattern(arg.prefix, N))
                                     /\ NormMatch(SeenOf, curr_pattern(arg.prefix, N))
                 /\ ~(/\ NormMatch(SeenOf, prev_pattern(arg.prefix, K + 1))
                      /\ NormMatch(SeenOf, curr_pattern(arg.prefix, K + 1)))
    IN [N \in 1..K |-> << FirstNormMatch(SeenOf, prev_pattern(arg.prefix, N)),
                          FirstNormMatch(SeenOf, curr_pattern(arg.prefix, N)) >>]
KeptPairs == result.r.cols.electricity_columns
Occurrences(seq, x) == Cardinality({k \in 1..Len(seq) : seq[k] = x})
ResolvedOk == result # <<>> /\ result.r.ok

\* C21 as stated: the list kept holds the meter-1 pair of the dedicated
\* lookup exactly once (unchanged when discovery returned the pair, else
\* the pair put at position 0 ahead of the discovered pairs), and no pair
\* twice.
C21_MeterOneExactlyOnce ==
    ResolvedOk =>
        /\ Occurrences(KeptPairs, MeterOnePair) = 1
        /\ KeptPairs = IF Occurrences(DiscoveredPairs, MeterOnePair) > 0
                       THEN DiscoveredPairs
                       ELSE <<MeterOnePair>> \o DiscoveredPairs
        /\ \A j, k \in 1..Len(KeptPairs) : KeptPairs[j] = KeptPairs[k] => j = k

\* no header holds the patterns of two meter numbers
NoSharedHeader ==
    \A j, k \in 1..Len(DiscoveredPairs) : DiscoveredPairs[j] = DiscoveredPairs[k] => j = k

\* C21 (amended): the list kept holds the meter-1 pair of the dedicated
\* lookup: it is the discovered list when discovery returned the pair, else
\* the pair at position 0 ahead of the discovered pairs; the pair is there
\* once and no pair is there twice when discovery returned no pair twice.
C21_MeterOneInsertedIfAbsent ==
    ResolvedOk =>
        /\ Occurrences(KeptPairs, MeterOnePair) >= 1
        /\ KeptPairs = IF Occurrences(DiscoveredPairs, MeterOnePair) > 0
                       THEN DiscoveredPairs
                       ELSE <<MeterOnePair>> \o DiscoveredPairs
        /\ NoSharedHeader =>
              /\ Occurrences(KeptPairs, MeterOnePair) = 1
              /\ \A j, k \in 1..Len(KeptPairs) : KeptPairs[j] = KeptPairs[k] => j = k

\* discovery under another prefix did not return the meter-1 pair and the
\* pair was put ahead of the two pairs it returned
C21_Witness ==
    /\ ResolvedOk
    /\ Occurrences(DiscoveredPairs, MeterOnePair) = 0
    /\ Len(DiscoveredPairs) = 2
    /\ KeptPairs[1] = MeterOnePair
    /\ Len(KeptPairs) = 3

\* C21: discovery returned the meter-1 pair and the list is left as it was
C21_AlreadyPresent ==
    /\ ResolvedOk
    /\ Occurrences(DiscoveredPairs, MeterOnePair) = 1
    /\ KeptPairs = DiscoveredPairs
    /\ Len(KeptPairs) = 2

\* the numbers of the column pairs of a row with a reading above 0, in list
\* order
KeptPairNumbers(row) ==
    SelectSeq([k \in 1..Len(colMap.electricity_columns) |-> k],
              LAMBDA k : \/ NumberOf(row, colMap.electricity_columns[k][1]) > 0
                         \/ NumberOf(row, colMap.electricity_columns[k][2]) > 0)

\* C22: the meters of a record are those of the column pairs kept for its
\* row, in list order, and the meter of the k-th pair has the decimal text
\* of k as its meter_id whatever pairs before it were left out; the ids of
\* a record, read as numbers, increase strictly.
C22_MeterIdIsPairNumber ==
    Reading =>
        /\ Len(bills) = Len(RecordedRows)
        /\ \A i \in 1..Len(bills) :
              LET ms == bills[i].electricity_meters
                  kept == KeptPairNumbers(RecordedRows[i])
              IN /\ Len(ms) = Len(kept)
                 /\ \A j \in 1..Len(ms) :
                       /\ ms[j].meter_id = Dec(kept[j])
                       /\ ms[j].prev_reading = NumberOf(RecordedRows[i], colMap.electricity_columns[kept[j]][1])
                       /\ ms[j].curr_reading = NumberOf(RecordedRows[i], colMap.electricity_columns[kept[j]][2])
                 /\ \A j \in 1..(Len(ms) - 1) : NatVal(ms[j].meter_id) < NatVal(ms[j + 1].meter_id)

\* a record whose only meter is that of the second pair, the first pair
\* having been left out: its meter_id is "2"
C22_Witness ==
    /\ Reading
    /\ variant = "lib"
    /\ Len(bills) = Len(RecordedRows)
    /\ \E i \in 1..Len(bills) :
          /\ KeptPairNumbers(RecordedRows[i]) = <<2>>
          /\ Len(bills[i].electricity_meters) = 1
          /\ bills[i].electricity_meters[1].meter_id = <<"2">>

\* C22: a record with the meters of two pairs, with the ids "1" and "2"
C22_TwoMeters ==
    /\ Reading
    /\ \E i \in 1..Len(bills) :
          /\ Len(bills[i].electricity_meters) = 2
          /\ bills[i].electricity_meters[1].meter_id = <<"1">>
          /\ bills[i].electricity_meters[2].meter_id = <<"2">>

ZeroBeforeUnit(s) ==
    \/ Contains(s, <<Zero, Zero>>)
    \/ Contains(s, <<Zero, "yuan">>)
    \/ Contains(s, <<Zero, "wan">>)
    \/ Contains(s, <<Zero, "yi_y">>)
    \/ s[Len(s)] = Zero

\* C25 as stated: the string of no amount holds "零零", a "零" right
\* before 元, 万 or 亿, or a "零" at its end.
C25_NoStrayZero == result # <<>> => ~ZeroBeforeUnit(result)

\* C25 (amended): the string of an amount above 0 holds no "零零", no "零"
\* right before 元, 万 or 亿 and no "零" at its end; the string of the amount
\* 0 is "零元整".
C25_NoStrayZeroAboveZero ==
    result # <<>> =>
        IF arg.wide = <<>> /\ arg.cents = 0
        THEN result = ZeroYuanZheng
        ELSE ~ZeroBeforeUnit(result)

\* 1 0000 0001.00 has been formatted: its zero digits at 万 and below 亿
\* leave one "零"
C25_Witness ==
    /\ arg.wide = <<1, 0, 0, 0, 0, 0, 0, 0, 1, 0, 0>>
    /\ result = <<"yi_1", "yi_y", "wan", Zero, "yi_1", "yuan", Zheng>>

\* C25: 100.50 has been formatted, the zero digit at 元 left out
C25_ZeroAtYuan ==
    /\ arg.wide = <<>> /\ arg.cents = 10050
    /\ result # <<>> /\ ~ZeroBeforeUnit(result)

(***************************************************************************)
(* The tables of the fixed notice layout (lib.rs).  A table is the         *)
(* sequence of its rows, a row the sequence of its cells, and a cell holds *)
(* its vertical merge, the number of columns it spans and its paragraphs,  *)
(* each the text of its run.                                               *)
(***************************************************************************)
\* format!("{:.0}", f): the nearest integer, a half going to the even one
fmt_0(f) ==
    LET mag == IF f < 0 THEN -f ELSE f
        whole == mag \div Scale
        rest == mag % Scale
        up == 2 * rest > Scale \/ (2 * rest = Scale /\ whole % 2 = 1)
    IN (IF f < 0 THEN <<"-">> ELSE <<>>) \o Dec(IF up THEN whole + 1 ELSE whole)

\* format!("{:.3}", f)
fmt_3(f) ==
    LET mag == IF f < 0 THEN -f ELSE f
        frac == ((mag % Scale) * 1000) \div Scale
    IN (IF f < 0 THEN <<"-">> ELSE <<>>)
       \o Dec(mag \div Scale) \o <<".">>
       \o Dec(frac \div 100) \o Dec((frac \div 10) % 10) \o Dec(frac % 10)

\* TableCell::new().add_paragraph(..add_text(text)..)
TableCell(text) == [vertical_merge |-> "none", grid_span |-> 1, paragraphs |-> <<text>>]
\* TableCell::new().vertical_merge(VMergeType::Restart).add_paragraph(..)
RestartCell(text) == [vertical_merge |-> "restart", grid_span |-> 1, paragraphs |-> <<text>>]
\* TableCell::new().vertical_merge(VMergeType::Continue)
ContinueCell == [vertical_merge |-> "continue", grid_span |-> 1, paragraphs |-> <<>>]
\* TableCell::new().grid_span(n).add_paragraph(..)
SpanCell(n, text) == [vertical_merge |-> "none", grid_span |-> n, paragraphs |-> <<text>>]

LblMeter == <<"dian_e", "biao">>
LblWater == <<"shui", "fei">>
LblLateFee == <<"zhi", "na", "jin">>
LblAdFee == <<"guang", "gao", "fei">>
LblTotal == <<"he", "ji">>
ZeroFee == <<"0", ".", "0", "0">>

FeeHeaderRow ==
    << TableCell(<<"xiang", "mu">>), TableCell(<<"shang", "yue", "biao", "di">>),
       TableCell(<<"ben", "yue", "chao", "biao", "shu">>), TableCell(<<"shi", "yong", "du", "shu">>),
       TableCell(<<"gong", "gong", "fen", "tan">>), TableCell(<<"dan", "jia">>),
       TableCell(<<"jin", "e">>) >>

\* mutant: the rows of the meters after the first show the price and the
\* amount again
meter_row_repeated(b, meter_idx) ==
    LET meter == b.electricity_meters[meter_idx]
        meters_len == Len(b.electricity_meters)
    IN << TableCell(IF meters_len = 1 THEN LblMeter ELSE LblMeter \o Dec(meter_idx)),
          TableCell(fmt_0(meter.prev_reading)), TableCell(fmt_0(meter.curr_reading)),
          TableCell(fmt_0(meter.usage)), TableCell(<<>>),
          TableCell(fmt_2(b.electricity_unit_price)), TableCell(fmt_0(b.electricity_amount)) >>

\* the row of one meter (meter_idx counts from 1 here)
meter_row(b, meter_idx) ==
    LET meter == b.electricity_meters[meter_idx]
        meters_len == Len(b.electricity_meters)
        meter_name == IF meters_len = 1 THEN LblMeter ELSE LblMeter \o Dec(meter_idx)
        unit_price_cell ==
            IF meters_len > 1
            THEN IF meter_idx = 1 THEN RestartCell(fmt_2(b.electricity_unit_price))
                 ELSE ContinueCell
            ELSE TableCell(fmt_2(b.electricity_unit_price))
        amount_cell ==
            IF meters_len > 1
            THEN IF meter_idx = 1 THEN RestartCell(fmt_0(b.electricity_amount))
                 ELSE ContinueCell
            ELSE TableCell(fmt_0(b.electricity_amount))
    IN << TableCell(meter_name),
          TableCell(fmt_0(meter.prev_reading)), TableCell(fmt_0(meter.curr_reading)),
          TableCell(fmt_0(meter.usage)), TableCell(<<>>),
          unit_price_cell, amount_cell >>

\* the row of a record without meters
no_meter_row(b) ==
    << TableCell(LblMeter), TableCell(<<"0">>), TableCell(<<"0">>), TableCell(<<"0">>),
       TableCell(<<>>), TableCell(fmt_2(b.electricity_unit_price)), TableCell(<<"0">>) >>

\* a row with a label, five empty cells and an amount
fee_row(label, amount) ==
    << TableCell(label), TableCell(<<>>), TableCell(<<>>), TableCell(<<>>),
       TableCell(<<>>), TableCell(<<>>), TableCell(amount) >>

\* mutant: a record without meters gets no meter row
meter_rows_bare(b) == [meter_idx \in 1..Len(b.electricity_meters) |-> meter_row(b, meter_idx)]

\* the rows pushed by the loop over the meters and by the test after it
meter_rows(b) ==
    [meter_idx \in 1..Len(b.electricity_meters) |-> meter_row(b, meter_idx)]
    \o (IF b.electricity_meters = <<>> THEN <<no_meter_row(b)>> ELSE <<>>)

\* the fee table of one record's notice
fee_table(b) ==
    <<FeeHeaderRow>>
    \o meter_rows(b)
    \o << << TableCell(LblWater),
             TableCell(fmt_0(b.prev_water_reading)), TableCell(fmt_0(b.curr_water_reading)),
             TableCell(fmt_0(b.water_usage)), TableCell(<<>>),
             TableCell(fmt_3(b.water_unit_price)), TableCell(fmt_0(b.water_amount)) >>,
          fee_row(LblLabor, fmt_2(b.water_electricity_labor_fee)),
          fee_row(LblGarbage, fmt_2(b.garbage_disposal_fee)),
          fee_row(LblLateFee, ZeroFee),
          fee_row(LblAdFee, ZeroFee),
          << TableCell(LblTotal),
             SpanCell(6, <<"da", "xie", ":">> \o rmb_upper((b.total_fee * 100) \div Scale)
                         \o <<" ", " ", " ", " ", "xiao", "xie", ":">> \o fmt_2(b.total_fee)) >> >>

RECURSIVE iter_sum(_)
\* Iterator::sum of a sequence of f64
iter_sum(values) ==
    IF values = <<>> THEN 0 ELSE iter_sum(Front(values)) + values[Len(values)]

\* mutant: the sum row repeats the last record
summary_sum_row_last(merchants) ==
    LET b == merchants[Len(merchants)]
    IN IF merchants = <<>>
       THEN << TableCell(LblTotal), TableCell(fmt_2(0)), TableCell(fmt_2(0)),
               TableCell(fmt_2(0)), TableCell(fmt_2(0)) >>
       ELSE << TableCell(LblTotal), TableCell(fmt_2(b.water_amount + b.electricity_amount)),
               TableCell(fmt_2(b.water_electricity_labor_fee)),
               TableCell(fmt_2(b.garbage_disposal_fee)), TableCell(fmt_2(b.total_fee)) >>

\* add_summary_table: the sum row
summary_sum_row(merchants) ==
    << TableCell(LblTotal),
       TableCell(fmt_2(iter_sum([i \in 1..Len(merchants) |->
                                    merchants[i].water_amount + merchants[i].electricity_amount]))),
       TableCell(fmt_2(iter_sum([i \in 1..Len(merchants) |-> merchants[i].water_electricity_labor_fee]))),
       TableCell(fmt_2(iter_sum([i \in 1..Len(merchants) |-> merchants[i].garbage_disposal_fee]))),
       TableCell(fmt_2(iter_sum([i \in 1..Len(merchants) |-> merchants[i].total_fee]))) >>

\* add_summary_table: the table
summary_table(merchants) ==
    << << TableCell(LblMerchant), TableCell(<<"shui", "dian", "fei", "he", "ji">>),
          TableCell(LblLabor), TableCell(LblGarbage), TableCell(<<"zong", "jia">>) >> >>
    \o [i \in 1..Len(merchants) |->
          << TableCell(merchants[i].merchant_name),
             TableCell(fmt_2(merchants[i].water_amount + merchants[i].electricity_amount)),
             TableCell(fmt_2(merchants[i].water_electricity_labor_fee)),
             TableCell(fmt_2(merchants[i].garbage_disposal_fee)),
             TableCell(fmt_2(merchants[i].total_fee)) >>]
    \o <<summary_sum_row(merchants)>>

MaxLayoutRecords == 2

\* the readings of three meter column pairs: 0/0 (the pair is left out of
\* the record) or 0.5/1.5
LayoutReadings == [1..3 -> {<<0, 0>>, <<1, 3>>}]

\* the records laid out, as the lib.rs readers build them
LayoutBills ==
    {build_bill("lib", <<"A">>, <<"S">>, 1, 2, 0, 3, <<r[1], r[2], r[3]>>, 0, 0) : r \in LayoutReadings}
    \cup {build_bill("lib", <<"B">>, <<"S">>, 1, 2, 0, 3, <<r[1], r[2], r[3]>>, 3, 1) : r \in LayoutReadings}

InitLayout ==
    /\ variant = "lib"
    /\ EngineIdle
    /\ BatchIdle
    /\ arg \in {[merchants |-> ms] : ms \in BoundedSeqs(LayoutBills, MaxLayoutRecords)}
    /\ result = <<>>

\* one pass of the loop of generate_word_document_with_template: the fee
\* table of a record
RenderNotice ==
    /\ result = <<>>
    /\ \E index \in 1..Len(arg.merchants) :
          result' = [kind |-> "notice", index |-> index, table |-> fee_table(arg.merchants[index])]
    /\ UNCHANGED <<variant, engineVars, batchVars, arg>>

\* add_summary_table(doc, merchants)
RenderSummary ==
    /\ result = <<>>
    /\ result' = [kind |-> "summary", index |-> 0, table |-> summary_table(arg.merchants)]
    /\ UNCHANGED <<variant, engineVars, batchVars, arg>>

NextLayout == RenderNotice \/ RenderSummary

SpecLayout == InitLayout /\ [][NextLayout]_vars

\* the record of the notice rendered, its meters and the rows of its table
NoticeRendered == result # <<>> /\ result.kind = "notice"
NoticeBill == arg.merchants[result.index]
NoticeMeters == NoticeBill.electricity_meters
TextOf(cell) == IF cell.paragraphs = <<>> THEN <<>> ELSE cell.paragraphs[1]
LabelOf(row) == TextOf(row[1])
Unmerged(cell, text) ==
    cell.vertical_merge = "none" /\ cell.grid_span = 1 /\ cell.paragraphs = <<text>>

\* C23: a record with more than one meter has the unit price and the
\* electricity amount of the record once, in the cells of the first meter
\* row, which start a vertical merge; the two cells of every later meter row
\* continue the merge and hold nothing.  With one meter the two cells are
\* not merged and hold the values.
C23_PriceAndAmountMerged ==
    NoticeRendered =>
        LET m == Len(NoticeMeters)
            price == fmt_2(NoticeBill.electricity_unit_price)
            amount == fmt_0(NoticeBill.electricity_amount)
            row(j) == result.table[1 + j]
        IN /\ m > 1 =>
                /\ row(1)[6] = [vertical_merge |-> "restart", grid_span |-> 1, paragraphs |-> <<price>>]
                /\ row(1)[7] = [vertical_merge |-> "restart", grid_span |-> 1, paragraphs |-> <<amount>>]
                /\ \A j \in 2..m :
                      /\ row(j)[6].vertical_merge = "continue" /\ row(j)[6].paragraphs = <<>>
                      /\ row(j)[7].vertical_merge = "continue" /\ row(j)[7].paragraphs = <<>>
           /\ m = 1 => Unmerged(row(1)[6], price) /\ Unmerged(row(1)[7], amount)

\* the notice of a record with three meters and an electricity amount
C23_Witness ==
    /\ NoticeRendered
    /\ Len(NoticeMeters) = 3
    /\ NoticeBill.electricity_amount > 0
    /\ result.table[2][7].vertical_merge = "restart"
    /\ result.table[4][7].vertical_merge = "continue"

\* C23: the notice of a record with one meter, nothing merged
C23_OneMeter ==
    /\ NoticeRendered
    /\ Len(NoticeMeters) = 1
    /\ result.table[2][7].vertical_merge = "none"

\* the rows after the meter rows, n the number of meter rows
FeeRowsAfter(n) ==
    /\ Len(result.table) = 1 + n + 6
    /\ result.table[1] = FeeHeaderRow
    /\ LabelOf(result.table[n + 2]) = LblWater
    /\ LabelOf(result.table[n + 3]) = LblLabor
    /\ TextOf(result.table[n + 3][7]) = fmt_2(NoticeBill.water_electricity_labor_fee)
    /\ LabelOf(result.table[n + 4]) = LblGarbage
    /\ TextOf(result.table[n + 4][7]) = fmt_2(NoticeBill.garbage_disposal_fee)
    /\ LabelOf(result.table[n + 5]) = LblLateFee
    /\ TextOf(result.table[n + 5][7]) = ZeroFee
    /\ LabelOf(result.table[n + 6]) = LblAdFee
    /\ TextOf(result.table[n + 6][7]) = ZeroFee
    /\ LabelOf(result.table[n + 7]) = LblTotal

\* the rows 2..(1 + m) are the rows of the m meters, labelled "电表" when
\* m = 1 and "电表1", "电表2", ... else
MeterRowsLabelled(m) ==
    \A j \in 1..m :
        /\ LabelOf(result.table[1 + j]) = (IF m = 1 THEN LblMeter ELSE LblMeter \o Dec(j))
        /\ TextOf(result.table[1 + j][2]) = fmt_0(NoticeMeters[j].prev_reading)
        /\ TextOf(result.table[1 + j][3]) = fmt_0(NoticeMeters[j].curr_reading)

\* C24 as stated: the fee table is the header row, one row for each meter
\* of the record, the water row, the labor fee row, the garbage fee row, the
\* late fee row and the advertising fee row with "0.00", and the totals row;
\* there are as many meter rows as the record has meters.
C24_OneRowPerMeter ==
    NoticeRendered =>
        /\ FeeRowsAfter(Len(NoticeMeters))
        /\ MeterRowsLabelled(Len(NoticeMeters))

\* C24 (amended): as C24, but a record without meters has one meter row,
\* labelled "电表", with the readings, the usage and the amount "0".
C24_MeterRowsOrPlaceholder ==
    NoticeRendered =>
        IF NoticeMeters = <<>>
        THEN /\ FeeRowsAfter(1)
             /\ LabelOf(result.table[2]) = LblMeter
             /\ \A c \in {2, 3, 4, 7} : TextOf(result.table[2][c]) = <<"0">>
        ELSE /\ FeeRowsAfter(Len(NoticeMeters))
             /\ MeterRowsLabelled(Len(NoticeMeters))

\* the notice of a record without meters: one meter row of zeros
C24_Witness ==
    /\ NoticeRendered
    /\ NoticeMeters = <<>>
    /\ Len(result.table) = 8
    /\ LabelOf(result.table[2]) = LblMeter

\* C24: the notice of a record with two meters: nine rows
C24_TwoMeterRows ==
    /\ NoticeRendered
    /\ Len(NoticeMeters) = 2
    /\ Len(result.table) = 9
    /\ LabelOf(result.table[3]) = LblMeter \o <<"2">>

\* C27: in the notice of a record with more than one meter the label of a
\* meter row is "电表" followed by the meter_id of the meter the row shows.
C27_LabelIsMeterId ==
    (NoticeRendered /\ Len(NoticeMeters) > 1) =>
        \A j \in 1..Len(NoticeMeters) :
            LabelOf(result.table[1 + j]) = LblMeter \o NoticeMeters[j].meter_id

\* C27: a record whose first column pair was left out: the rows labelled
\* "电表1" and "电表2" show the meters with the ids "2" and "3"
C27_LabelsRenumbered ==
    /\ NoticeRendered
    /\ Len(NoticeMeters) = 2
    /\ NoticeMeters[1].meter_id = <<"2">>
    /\ NoticeMeters[2].meter_id = <<"3">>
    /\ LabelOf(result.table[2]) = LblMeter \o <<"1">>
    /\ LabelOf(result.table[3]) = LblMeter \o <<"2">>

SummaryRendered == result # <<>> /\ result.kind = "summary"
\* the number a cell shows
ShownIn(cell) == parse_f64(TextOf(cell)).v

\* C26: the summary table has, after its header row, one row for each
\* record, in record order, with the name, water_amount +
\* electricity_amount, the labor fee, the garbage fee and total_fee, and
\* then one row with the sums of the four columns; in every row the total
\* shown is the sum of the three fee entries shown.
C26_SummaryRowsAndSums ==
    SummaryRendered =>
        LET ms == arg.merchants
            n == Len(ms)
            t == result.table
        IN /\ Len(t) = n + 2
           /\ \A i \in 1..(n + 2) : Len(t[i]) = 5
           /\ \A i \in 1..n :
                 /\ TextOf(t[i + 1][1]) = ms[i].merchant_name
                 /\ TextOf(t[i + 1][2]) = fmt_2(ms[i].water_amount + ms[i].electricity_amount)
                 /\ TextOf(t[i + 1][3]) = fmt_2(ms[i].water_electricity_labor_fee)
                 /\ TextOf(t[i + 1][4]) = fmt_2(ms[i].garbage_disposal_fee)
                 /\ TextOf(t[i + 1][5]) = fmt_2(ms[i].total_fee)
           /\ LabelOf(t[n + 2]) = LblTotal
           /\ \A c \in 2..5 :
                 ShownIn(t[n + 2][c]) = SeqSum([i \in 1..n |-> ShownIn(t[i + 1][c])])
           /\ \A i \in 2..(n + 2) :
                 ShownIn(t[i][5]) = ShownIn(t[i][2]) + ShownIn(t[i][3]) + ShownIn(t[i][4])

\* the summary of two records with different names and totals
C26_Witness ==
    /\ SummaryRendered
    /\ Len(arg.merchants) = 2
    /\ arg.merchants[1].merchant_name # arg.merchants[2].merchant_name
    /\ arg.merchants[1].total_fee # arg.merchants[2].total_fee
    /\ arg.merchants[1].total_fee > 0
    /\ ShownIn(result.table[4][5]) = arg.merchants[1].total_fee + arg.merchants[2].total_fee

(***************************************************************************)
(* Placeholder substitution for records whose merchant name holds a token  *)
(***************************************************************************)
\* merchant names as a data row can give them: plain, and the text of a
\* token
InjectionNames == {<<"B">>, Token("year"), Token("total_amount"), Token("merchant_name")}

InjectionPieces == {Token("merchant_name"), Token("year"), Token("total_amount"), <<"a">>}

InjectionTexts == {Join(ps) : ps \in BoundedSeqs(InjectionPieces, MaxPieces)}

InitInjection ==
    /\ variant = "main"
    /\ EngineIdle
    /\ BatchIdle
    /\ arg \in {[text |-> t, bill |-> [PlaceholderBill EXCEPT !.merchant_name = n], now |-> Clock] :
                    t \in InjectionTexts, n \in InjectionNames}
    /\ result = <<>>

NextInjection == SubstituteSimple \/ SubstituteTemplate

SpecInjection == InitInjection /\ [][NextInjection]_vars

\* C28: the text rendered is the template text with each recognised token
\* replaced by the record's value in one pass: a value put in is not looked
\* at again, so a merchant name that is the text of a token is in the
\* output as it is.
C28_InsertedValuesNotScanned ==
    result # <<>> =>
        /\ result.by = "template_simple" =>
              result.text = Scan(arg.text, RecognisedNames, simple_pairs(arg.bill, arg.now))
        /\ result.by = "template" =>
              result.text = Scan(arg.text, NamesOf(template_pairs(arg.bill, arg.now)),
                                 template_pairs(arg.bill, arg.now))

\* C28: the merchant name "{year}", put in for {merchant_name}, has been
\* replaced by the year
C28_NameRewritten ==
    /\ result # <<>>
    /\ arg.bill.merchant_name = Token("year")
    /\ arg.text = Token("merchant_name")
    /\ result.text = Dec(Clock.year)

\* C28: a plain merchant name comes out as one pass gives it
C28_PlainNameKept ==
    /\ result # <<>>
    /\ arg.bill.merchant_name = <<"B">>
    /\ arg.text = Token("merchant_name") \o Token("year")
    /\ result.text = <<"B">> \o Dec(Clock.year)


(***************************************************************************)
(* C29: the order of the records of a batch.                               *)
(***************************************************************************)
\* the record a row gives when it is the only row of the table
RecordAlone(row) == read_rows(variant, format, colMap, <<row>>)[1]

\* C29: the record list holds exactly one record for every row that is not
\* skipped, in the order of the rows in the table; each record is the one
\* its row gives on its own, so a skipped row changes neither the content
\* nor the order of the records of the other rows.
C29_RecordsFollowRowOrder ==
    Reading =>
        LET kept == SelectSeq(rowsRead, Eligible)
        IN /\ Len(bills) = Len(kept)
           /\ \A i \in 1..Len(bills) :
                 /\ bills[i] = RecordAlone(kept[i])
                 /\ Trim(bills[i].merchant_name) = NameOf(kept[i])
                 /\ bills[i].curr_water_reading = NumberOf(kept[i], colMap.wc_i)

\* two rows that give different records, recorded in the order of the rows
C29_Witness ==
    /\ Reading
    /\ Len(rowsRead) = 2
    /\ Len(bills) = 2
    /\ bills[1] # bills[2]
    /\ bills[1] = RecordAlone(rowsRead[1])
    /\ bills[2] = RecordAlone(rowsRead[2])

\* a skipped row ahead of a recorded one: the record is that of the second row
C29_SkippedRowAhead ==
    /\ Reading
    /\ Len(rowsRead) = 2
    /\ ~Eligible(rowsRead[1])
    /\ Eligible(rowsRead[2])
    /\ bills = <<RecordAlone(rowsRead[2])>>

\* a skipped row after a recorded one: the record list is left as it was
C29_SkippedRowBehind ==
    /\ Reading
    /\ Len(rowsRead) = 2
    /\ Eligible(rowsRead[1])
    /\ ~Eligible(rowsRead[2])
    /\ bills = <<RecordAlone(rowsRead[1])>>


(***************************************************************************)
(* The PDF conversion of the web server (server.rs).  The converters are   *)
(* external programs: what each does with the temporary DOCX is an input.  *)
(***************************************************************************)
\* what running a converter can come to: the program cannot be started, it
\* exits with a failure status, it exits successfully and its PDF is read,
\* or it exits successfully and the PDF cannot be read
ToolOutcomes == {"absent", "exit_fail", "pdf", "no_pdf"}

\* the steps that write the temporary DOCX, and the one of them that fails
TempOutcomes == {"ok", "no_dir", "no_file", "no_write"}

\* mutant: the office programs in another order, lowriter first
tools_reordered == <<"lowriter", "soffice", "libreoffice">>

\* `let tools = ["soffice", "libreoffice", "lowriter"];`
tools == <<"soffice", "libreoffice", "lowriter">>

Pandoc == "pandoc"

\* the bytes of the PDF a converter writes
PdfOf(tool) == <<"pdf", tool>>

NoReturn == [status |-> "running"]
ConvertOk(bytes) == [status |-> "ok", filename |-> "output.pdf", bytes |-> bytes]
ConvertErr(e) == [status |-> "err", err |-> e]

\* the context of the error of each temporary-file step
TempError(t) ==
    IF t = "no_dir" THEN "cannot create temporary directory"
    ELSE IF t = "no_file" THEN "cannot create temporary DOCX"
    ELSE "cannot write temporary DOCX"

ReadPdfError == "cannot read generated PDF"
NoConverterError == "no converter available"

\* `if status is Ok and success { let bytes = fs::read(..)?; return Ok(..) }`:
\* the return of the function after a converter ran, NoReturn to go on
after_tool(tool, o) ==
    IF o = "pdf" THEN ConvertOk(PdfOf(tool))
    ELSE IF o = "no_pdf" THEN ConvertErr(ReadPdfError)
    ELSE NoReturn

InitConvert ==
    /\ variant = "lib"
    /\ EngineIdle
    /\ BatchIdle
    /\ arg \in [temp : TempOutcomes, run : [{"soffice", "libreoffice", "lowriter", "pandoc"} -> ToolOutcomes]]
    /\ result = [at |-> "temp", tried |-> <<>>, ret |-> NoReturn]

\* the temporary directory and DOCX file: each step returns its error with `?`
WriteTempDocx ==
    /\ result.at = "temp"
    /\ result' = IF arg.temp = "ok" THEN [result EXCEPT !.at = "office"]
                 ELSE [result EXCEPT !.at = "returned", !.ret = ConvertErr(TempError(arg.temp))]
    /\ UNCHANGED <<variant, engineVars, batchVars, arg>>

\* one iteration of `for tool in tools.iter()`
TryOfficeTool ==
    /\ result.at = "office"
    /\ LET tool == tools[Len(result.tried) + 1]
           ret == after_tool(tool, arg.run[tool])
       IN result' = [at |-> IF ret # NoReturn THEN "returned"
                            ELSE IF Len(result.tried) + 1 = Len(tools) THEN "pandoc"
                            ELSE "office",
                     tried |-> Append(result.tried, tool),
                     ret |-> ret]
    /\ UNCHANGED <<variant, engineVars, batchVars, arg>>

\* the pandoc fallback and the final `anyhow::bail!`
TryPandoc ==
    /\ result.at = "pandoc"
    /\ LET ret == after_tool(Pandoc, arg.run[Pandoc])
       IN result' = [at |-> "returned",
                     tried |-> Append(result.tried, Pandoc),
                     ret |-> IF ret # NoReturn THEN ret ELSE ConvertErr(NoConverterError)]
    /\ UNCHANGED <<variant, engineVars, batchVars, arg>>

NextConvert == WriteTempDocx \/ TryOfficeTool \/ TryPandoc

SpecConvert == InitConvert /\ [][NextConvert]_vars

\* the order the claim gives
ConverterOrder == <<"soffice", "libreoffice", "lowriter", "pandoc">>

\* the converter did not exit successfully
ExitFailed(tool) == arg.run[tool] \in {"absent", "exit_fail"}

Returned == result.at = "returned"

\* C30: the function returns an error only when all four converters have
\* failed, a converter having failed when it gave no PDF.
C30_ErrorOnlyWhenAllFailed ==
    (Returned /\ result.ret.status = "err") =>
        \A k \in 1..4 : arg.run[ConverterOrder[k]] # "pdf"

\* C30 (amended): the converters are run in the order soffice, libreoffice,
\* lowriter, pandoc, each only after every earlier one could not be started
\* or exited with a failure status; the function returns the PDF of the
\* first converter that exits successfully, and returns an error when the
\* temporary DOCX cannot be written (no converter is run), when the PDF of
\* the first converter that exits successfully cannot be read (no later
\* converter is run), or when none of the four exits successfully.
C30_FirstSuccessfulExitDecides ==
    LET n == Len(result.tried)
    IN /\ n <= 4
       /\ \A k \in 1..n : result.tried[k] = ConverterOrder[k]
       /\ \A k \in 1..(n - 1) : ExitFailed(result.tried[k])
       /\ ~Returned => /\ result.ret = NoReturn
                       /\ \A k \in 1..n : ExitFailed(result.tried[k])
       /\ Returned =>
             IF arg.temp # "ok" THEN n = 0 /\ result.ret = ConvertErr(TempError(arg.temp))
             ELSE /\ n >= 1
                  /\ LET last == result.tried[n]
                     IN CASE arg.run[last] = "pdf" -> result.ret = ConvertOk(PdfOf(last))
                          [] arg.run[last] = "no_pdf" -> result.ret = ConvertErr(ReadPdfError)
                          [] OTHER -> n = 4 /\ result.ret = ConvertErr(NoConverterError)

\* soffice cannot be started, libreoffice exits with a failure, lowriter
\* writes the PDF that is returned; pandoc, which would also succeed, is not run
C30_Witness ==
    /\ Returned
    /\ arg.run["soffice"] = "absent"
    /\ arg.run["libreoffice"] = "exit_fail"
    /\ arg.run["pandoc"] = "pdf"
    /\ result.tried = <<"soffice", "libreoffice", "lowriter">>
    /\ result.ret = ConvertOk(PdfOf("lowriter"))

\* soffice exits successfully but its PDF cannot be read: an error is
\* returned although pandoc would have written a PDF
C30_UnreadablePdfEndsConversion ==
    /\ Returned
    /\ arg.run["soffice"] = "no_pdf"
    /\ arg.run["pandoc"] = "pdf"
    /\ result.tried = <<"soffice">>
    /\ result.ret = ConvertErr(ReadPdfError)

\* all four converters fail: the error names the missing converters
C30_AllFourFailed ==
    /\ Returned
    /\ result.tried = ConverterOrder
    /\ result.ret = ConvertErr(NoConverterError)

====
